---- MODULE Spec2Model ----
(***************************************************************************)
(* Excalibur-EXS blockchain node: the Proof-of-Forge consensus engine      *)
(* (blockchain/src/consensus/mod.rs) and the forge mempool                 *)
(* (blockchain/src/mempool/mod.rs) as state machines.                      *)
(*                                                                         *)
(* Digests are abstracted.  A proof hash / derived key is a two-byte       *)
(* prefix of the 32-byte array (enough to count leading zero bytes); a     *)
(* SHA-256 of a serialized value is the one-element tuple holding the      *)
(* value (collision free); the zero digest [0u8; 32] is the empty tuple.   *)
(***************************************************************************)
EXTENDS Integers, Sequences, FiniteSets, TLC

VARIABLES
    \* ---- ConsensusEngine (consensus/mod.rs:40-61)
    difficulty,        \* *difficulty
    total_forges,      \* *total_forges
    height,            \* chain_state.height
    latest_hash,       \* chain_state.latest_hash
    used_prophecies,   \* chain_state.used_prophecies : proof_hash -> height
    difficultyLock,    \* RwLock state of `difficulty`
    totalLock,         \* RwLock state of `total_forges`
    chainLock,         \* RwLock state of `chain_state`
    applyPc,           \* position of each thread inside apply_block
    applyBlk,          \* the block each thread is applying (<<>> when none)
    received,          \* the block the node received (<<>> when none)
    salt_from_timestamp, \* how proof_of_forge(prophecy, timestamp) uses timestamp
    \* ---- history of the engine (not program state)
    initial_difficulty,\* the argument of ConsensusEngine::new
    applied,           \* one record per apply_block that wrote chain_state
    last,              \* the most recent call and what it returned
    seen,              \* what readers read since the running apply began
    validating,        \* a validate_forge call between its two lock reads
    \* ---- ForgePool (mempool/mod.rs:24-33)
    pending,           \* proof_hash -> MempoolEntry
    priority_queue,    \* set of <<proof_hash, priority>>
    pendingLock,       \* RwLock state of `pending`
    queueLock,         \* RwLock state of `priority_queue`
    readers,           \* the threads holding a read guard, per mempool lock
    max_size,
    min_fee,
    overflow_checks,   \* build profile: u64 subtraction panics or wraps
    now,               \* SystemTime::now() in seconds
    poolPc,            \* position of each thread inside a mempool call
    poolLast,          \* the most recent mempool call and what it returned
    \* ---- RpcServer (rpc/mod.rs:43-54)
    handlers,          \* method name -> registered handler
    server_state,      \* ServerState: chain_height, total_forges, peer_count
    rpcLast,           \* the most recent request and how it was answered
    \* ---- ChainStore (chain/mod.rs:9-11)
    db,                \* the key-value store: key bytes -> value bytes
    written,           \* history: the last value put under each store key
    storeLast,         \* the most recent store call and what it returned
    \* ---- the functions of crypto/mod.rs
    cryptoLast,        \* the most recent call of one of them and what it returned
    tetra,             \* a TetraPoWState being computed, round by round
    runs               \* history: every proof_of_forge run, inputs and outputs

engineVars == <<difficulty, total_forges, height, latest_hash, used_prophecies,
                difficultyLock, totalLock, chainLock, applyPc, applyBlk,
                received, salt_from_timestamp, initial_difficulty, applied, last, seen,
                validating>>
poolVars == <<pending, priority_queue, pendingLock, queueLock, readers, max_size,
              min_fee, overflow_checks, poolPc, poolLast>>
rpcVars == <<handlers, server_state, rpcLast>>
storeVars == <<db, written, storeLast>>
cryptoVars == <<cryptoLast, tetra, runs>>
vars == <<engineVars, poolVars, now, rpcVars, storeVars, cryptoVars>>

----------------------------------------------------------------------------
\* Bounds of the model.
MaxForges == 2
MaxNow == 2
MaxPoolSize == 2
MaxRuns == 2

\* Program constants.
max_forges_per_block == 100
DIFFICULTY_INTERVAL == 10000
MAX_FUTURE_SKEW == 7200
TEST_MIN_FEE == 1000

Threads == {"t1", "t2"}
Timestamps == {1, 2}
InitialDifficulties == {0, 1}

----------------------------------------------------------------------------
\* Digests.

ZERO_HASH == <<>>
Sha256(v) == <<v>>
Sha256Pair(a, b) == <<a, b>>

\* The digests a proof hash or a derived key ranges over.
ProofHashes == {<<0, 0>>, <<0, 1>>, <<1, 0>>}

CANONICAL_PROPHECY ==
    "sword legend pull magic kingdom artist stone destroy forget fire steel honey question"
NON_CANONICAL ==
    "sword sword sword sword sword sword sword sword sword sword sword sword sword"

\* Stages 1-4 of the pipeline on the canonical words: a fixed digest per salt
\* (salt 0 is the default salt).
FinalSeed(salt) == <<(salt \div 2) % 2, salt % 2>>

\* Stage 5.
derive_taproot_address(final_seed) == <<"bc1", final_seed>>

\* proof_of_forge(&forge.prophecy, forge.timestamp) as validate_forge uses it.
proof_of_forge(prophecy, timestamp, mixes) ==
    LET seed == FinalSeed(IF mixes THEN timestamp ELSE 0)
    IN  [derived_key |-> seed,
         taproot_address |-> derive_taproot_address(seed),
         proof_hash |-> seed]

----------------------------------------------------------------------------
\* Forge transactions and blocks the model draws its inputs from.

Forge(prophecy, key, address, proof, ts) ==
    [prophecy |-> prophecy, derived_key |-> key, taproot_address |-> address,
     proof_hash |-> proof, timestamp |-> ts, signature |-> <<>>]

\* A forge whose derived key and address are the pipeline's; its proof_hash
\* field is whatever the submitter wrote.
DerivedForge(proof, ts, mixes) ==
    LET pof == proof_of_forge(CANONICAL_PROPHECY, ts, mixes)
    IN  Forge(CANONICAL_PROPHECY, pof.derived_key, pof.taproot_address, proof, ts)

\* The forges validate_forge is called with: every derived forge, and one of
\* them with each checked field changed in turn.
Forges(mixes) ==
    LET base == DerivedForge(<<0, 1>>, 1, mixes)
        late == DerivedForge(<<1, 0>>, 2, mixes)
    IN  {DerivedForge(ph, ts, mixes) : ph \in ProofHashes, ts \in Timestamps}
        \cup {[base EXCEPT !.prophecy = NON_CANONICAL],
              [base EXCEPT !.derived_key = <<1, 1>>],
              [base EXCEPT !.taproot_address = derive_taproot_address(<<1, 1>>)],
              [base EXCEPT !.prophecy = NON_CANONICAL, !.derived_key = <<1, 1>>],
              [late EXCEPT !.prophecy = NON_CANONICAL,
                           !.taproot_address = derive_taproot_address(<<1, 1>>)]}

\* The forges blocks are built from: same timestamp, different proof_hash field.
BlockForges(mixes) == {DerivedForge(ph, 1, mixes) : ph \in {<<0, 1>>, <<1, 0>>}}

\* A forge list of odd length above one: its last leaf is paired with itself.
ODD_FORGES(mixes) ==
    [i \in 1..3 |-> DerivedForge(IF i = 2 THEN <<1, 0>> ELSE <<0, 1>>, 1, mixes)]

ForgeLists(mixes) ==
    UNION {[1..n -> BlockForges(mixes)] : n \in 0..MaxForges}
    \cup {<<[DerivedForge(<<0, 1>>, 1, mixes) EXCEPT !.prophecy = NON_CANONICAL]>>}
    \cup {ODD_FORGES(mixes)}

Header(h, prev, root, ts) ==
    [version |-> 1, height |-> h, prev_block_hash |-> prev, merkle_root |-> root,
     timestamp |-> ts, difficulty |-> 0, nonce |-> 0]

GENESIS_HEADER == Header(0, ZERO_HASH, ZERO_HASH, 0)

ParentHashes == {ZERO_HASH, Sha256(GENESIS_HEADER)}

----------------------------------------------------------------------------
\* RwLock.  A lock is "free", "poisoned" (a thread panicked while holding a
\* write guard) or names the thread whose write guard is alive.  The engine's
\* read guards never live across a step of the model; the mempool's are kept
\* in `readers` where its calls are modelled lock by lock.

\* .read().unwrap() / .write().unwrap() by a thread that holds no guard on it.
Acquire(lock) ==
    IF lock \in Threads THEN "blocked"
    ELSE IF lock = "poisoned" THEN "panic"
    ELSE "ok"

\* .read() by the thread that already holds the write guard: std documents
\* that this may deadlock or panic.
RecursiveReadOutcomes == {"deadlock", "panic"}

----------------------------------------------------------------------------
\* ConsensusEngine: pure parts.

RECURSIVE LeadingZeros(_)
LeadingZeros(hash) ==
    IF hash = <<>> THEN 0
    ELSE IF Head(hash) = 0 THEN 1 + LeadingZeros(Tail(hash))
    ELSE 0

check_difficulty(hash, d) == LeadingZeros(hash) >= d

MerkleNextLevel(hashes) ==
    [i \in 1..((Len(hashes) + 1) \div 2) |->
        Sha256Pair(hashes[2 * i - 1],
                   IF 2 * i <= Len(hashes) THEN hashes[2 * i] ELSE hashes[2 * i - 1])]

RECURSIVE MerkleReduce(_)
MerkleReduce(hashes) ==
    IF Len(hashes) > 1 THEN MerkleReduce(MerkleNextLevel(hashes)) ELSE hashes[1]

compute_merkle_root(forges) ==
    IF forges = <<>> THEN ZERO_HASH
    ELSE MerkleReduce([i \in 1..Len(forges) |-> Sha256(forges[i])])

compute_block_hash(header) == Sha256(header)

\* The blocks a node receives: a well-formed header for the first block of the
\* chain, or one with a single field departing from it.
HeaderFaults == {"none", "height", "parent", "merkle", "timestamp"}

HeaderFor(forges, fault) ==
    Header(IF fault = "height" THEN 2 ELSE 1,
           IF fault = "parent" THEN Sha256(GENESIS_HEADER) ELSE ZERO_HASH,
           IF fault = "merkle" THEN Sha256Pair(ZERO_HASH, ZERO_HASH)
                               ELSE compute_merkle_root(forges),
           IF fault = "timestamp" THEN MAX_FUTURE_SKEW + MaxNow + 1
           ELSE IF fault = "old" THEN 0
           ELSE MAX_FUTURE_SKEW + MaxNow)

\* A block of DIFFICULTY_INTERVAL forges (never validated: over the limit).
BIG_BLOCK ==
    [header |-> Header(1, ZERO_HASH, ZERO_HASH, MAX_FUTURE_SKEW),
     forges |-> [i \in 1..DIFFICULTY_INTERVAL |-> DerivedForge(<<0, 1>>, 1, TRUE)]]

Blocks(mixes) ==
    {[header |-> HeaderFor(fs, fault), forges |-> fs] :
        fs \in ForgeLists(mixes), fault \in HeaderFaults}

\* The block that extends `block` with the same forges.
Child(block) ==
    [header |-> [block.header EXCEPT !.height = block.header.height + 1,
                                     !.prev_block_hash = compute_block_hash(block.header)],
     forges |-> block.forges]

----------------------------------------------------------------------------
\* ConsensusEngine::validate_forge.

\* validate_forge without the comparison at line 95.
ValidateDerivationNoAddressCheck(forge) ==
    IF forge.prophecy # CANONICAL_PROPHECY THEN "InvalidProphecy"
    ELSE LET pof == proof_of_forge(forge.prophecy, forge.timestamp, salt_from_timestamp)
         IN  IF pof.derived_key # forge.derived_key THEN "DerivedKeyMismatch"
             ELSE "Ok"

\* validate_forge with the comparison of line 82 after those of lines 90 and 95.
ValidateDerivationProphecyLast(forge) ==
    LET pof == proof_of_forge(forge.prophecy, forge.timestamp, salt_from_timestamp)
    IN  IF pof.derived_key # forge.derived_key THEN "DerivedKeyMismatch"
        ELSE IF pof.taproot_address # forge.taproot_address THEN "AddressMismatch"
        ELSE IF forge.prophecy # CANONICAL_PROPHECY THEN "InvalidProphecy"
        ELSE "Ok"

\* Steps 1-4: the prophecy and the derivation; no lock is taken.
ValidateDerivation(forge) ==
    IF forge.prophecy # CANONICAL_PROPHECY THEN "InvalidProphecy"
    ELSE LET pof == proof_of_forge(forge.prophecy, forge.timestamp, salt_from_timestamp)
         IN  IF pof.derived_key # forge.derived_key THEN "DerivedKeyMismatch"
             ELSE IF pof.taproot_address # forge.taproot_address THEN "AddressMismatch"
             ELSE "Ok"

\* Step 5: the difficulty read and check, on the recomputed proof hash.
ValidateDifficulty(forge) ==
    LET pof == proof_of_forge(forge.prophecy, forge.timestamp, salt_from_timestamp)
    IN  IF Acquire(difficultyLock) = "blocked" THEN "Blocked"
        ELSE IF Acquire(difficultyLock) = "panic" THEN "Panic"
        ELSE IF ~check_difficulty(pof.proof_hash, difficulty) THEN "DifficultyNotMet"
        ELSE "Ok"

\* Step 6: the replay lookup, on the recomputed proof hash.
ValidateReplay(forge) ==
    LET pof == proof_of_forge(forge.prophecy, forge.timestamp, salt_from_timestamp)
    IN  IF Acquire(chainLock) = "blocked" THEN "Blocked"
        ELSE IF Acquire(chainLock) = "panic" THEN "Panic"
        ELSE IF pof.proof_hash \in DOMAIN used_prophecies THEN "Replay"
        ELSE "Ok"

\* The whole call when no other thread steps in between its two reads.
\* "Blocked": the call waits for a lock; "Panic": unwrap() of a poisoned lock.
validate_forge(forge) ==
    IF ValidateDerivation(forge) # "Ok" THEN ValidateDerivation(forge)
    ELSE IF ValidateDifficulty(forge) # "Ok" THEN ValidateDifficulty(forge)
    ELSE ValidateReplay(forge)

\* validate_block without the comparison of lines 140-143.
ValidateBlockNoMerkleCheck(block, parent_hash, clock) ==
    LET failed == {i \in 1..Len(block.forges) : validate_forge(block.forges[i]) # "Ok"}
        first == CHOOSE i \in failed : \A j \in failed : i <= j
    IN  IF block.header.prev_block_hash # parent_hash THEN "BadBlockLink"
        ELSE IF block.forges = <<>> THEN "EmptyBlock"
        ELSE IF Len(block.forges) > max_forges_per_block THEN "TooManyForges"
        ELSE IF failed # {} THEN validate_forge(block.forges[first])
        ELSE IF block.header.timestamp > clock + MAX_FUTURE_SKEW THEN "FutureTimestamp"
        ELSE "Ok"

\* validate_block with `>=` for the `>` of line 127.
ValidateBlockLimitExclusive(block, parent_hash, clock) ==
    LET failed == {i \in 1..Len(block.forges) : validate_forge(block.forges[i]) # "Ok"}
        first == CHOOSE i \in failed : \A j \in failed : i <= j
    IN  IF block.header.prev_block_hash # parent_hash THEN "BadBlockLink"
        ELSE IF block.forges = <<>> THEN "EmptyBlock"
        ELSE IF Len(block.forges) >= max_forges_per_block THEN "TooManyForges"
        ELSE IF failed # {} THEN validate_forge(block.forges[first])
        ELSE IF compute_merkle_root(block.forges) # block.header.merkle_root
             THEN "BadMerkleRoot"
        ELSE IF block.header.timestamp > clock + MAX_FUTURE_SKEW THEN "FutureTimestamp"
        ELSE "Ok"

\* validate_block with `>=` for the `>` of line 151.
ValidateBlockSkewExclusive(block, parent_hash, clock) ==
    LET failed == {i \in 1..Len(block.forges) : validate_forge(block.forges[i]) # "Ok"}
        first == CHOOSE i \in failed : \A j \in failed : i <= j
    IN  IF block.header.prev_block_hash # parent_hash THEN "BadBlockLink"
        ELSE IF block.forges = <<>> THEN "EmptyBlock"
        ELSE IF Len(block.forges) > max_forges_per_block THEN "TooManyForges"
        ELSE IF failed # {} THEN validate_forge(block.forges[first])
        ELSE IF compute_merkle_root(block.forges) # block.header.merkle_root
             THEN "BadMerkleRoot"
        ELSE IF block.header.timestamp >= clock + MAX_FUTURE_SKEW THEN "FutureTimestamp"
        ELSE "Ok"

\* ConsensusEngine::validate_block, with the clock value it reads.
validate_block(block, parent_hash, clock) ==
    LET failed == {i \in 1..Len(block.forges) : validate_forge(block.forges[i]) # "Ok"}
        first == CHOOSE i \in failed : \A j \in failed : i <= j
    IN  IF block.header.prev_block_hash # parent_hash THEN "BadBlockLink"
        ELSE IF block.forges = <<>> THEN "EmptyBlock"
        ELSE IF Len(block.forges) > max_forges_per_block THEN "TooManyForges"
        ELSE IF failed # {} THEN validate_forge(block.forges[first])
        ELSE IF compute_merkle_root(block.forges) # block.header.merkle_root
             THEN "BadMerkleRoot"
        ELSE IF block.header.timestamp > clock + MAX_FUTURE_SKEW THEN "FutureTimestamp"
        ELSE "Ok"

----------------------------------------------------------------------------
\* ConsensusEngine::apply_block by thread t, as steps on a record of the
\* engine's fields: one step per lock the call takes.

Engine(t) ==
    [difficulty |-> difficulty, total_forges |-> total_forges, height |-> height,
     latest_hash |-> latest_hash, used_prophecies |-> used_prophecies,
     difficultyLock |-> difficultyLock, totalLock |-> totalLock,
     chainLock |-> chainLock, pc |-> applyPc[t], blk |-> applyBlk[t], ret |-> "none"]

\* Lines 169-172: used_prophecies.insert(forge.proof_hash, header.height).
InsertProofs(used, block) ==
    LET hashes == {block.forges[i].proof_hash : i \in 1..Len(block.forges)}
    IN  [h \in (DOMAIN used) \cup hashes |->
            IF h \in hashes THEN block.header.height ELSE used[h]]

\* The chain_state write guard `state` lives until apply_block returns.
StateGuardDropped(t) == "free"
StateGuardAfterWrite(t) == t

\* The total_forges write guard `total` lives until apply_block returns.
TotalGuardDropped(t) == "free"
TotalGuardAfterWrite(t) == t

\* Lines 160-172: take the chain_state write lock and write the chain state.
LockState(t, e, block) ==
    IF Acquire(e.chainLock) = "panic" THEN [e EXCEPT !.ret = "Panic"]
    ELSE IF Acquire(e.chainLock) = "blocked" THEN [e EXCEPT !.ret = "Blocked"]
    ELSE [e EXCEPT !.height = block.header.height,
                   !.latest_hash = compute_block_hash(block.header),
                   !.used_prophecies = InsertProofs(e.used_prophecies, block),
                   !.chainLock = StateGuardAfterWrite(t),
                   !.pc = "state_written",
                   !.blk = <<block>>]

\* What unwinding from a panic does to the guards thread t holds.
Unwind(t, e) ==
    [e EXCEPT !.chainLock = IF @ = t THEN "poisoned" ELSE @,
              !.totalLock = IF @ = t THEN "poisoned" ELSE @,
              !.pc = "panicked",
              !.ret = "Panic"]

\* An apply that counts blocks instead of forges.
LockTotalCountsBlocks(t, e) ==
    IF Acquire(e.totalLock) = "panic" THEN Unwind(t, e)
    ELSE IF Acquire(e.totalLock) = "blocked" THEN [e EXCEPT !.ret = "Blocked"]
    ELSE [e EXCEPT !.total_forges = @ + 1,
                   !.totalLock = TotalGuardAfterWrite(t),
                   !.pc = "total_written"]

\* Lines 175-176: take the total_forges write lock and add the forge count.
LockTotal(t, e) ==
    IF Acquire(e.totalLock) = "panic" THEN Unwind(t, e)
    ELSE IF Acquire(e.totalLock) = "blocked" THEN [e EXCEPT !.ret = "Blocked"]
    ELSE [e EXCEPT !.total_forges = @ + Len(e.blk[1].forges),
                   !.totalLock = TotalGuardAfterWrite(t),
                   !.pc = "total_written"]

\* Line 179 with adjust_difficulty (lines 238-250), then the return at 181,
\* which drops the guards.  `outcome` is what total_forges.read() does when
\* this thread holds the write guard.
AdjustAndReturn(t, e, outcome) ==
    IF e.totalLock = t
    THEN IF outcome = "panic" THEN Unwind(t, e)
         ELSE [e EXCEPT !.pc = "deadlocked", !.ret = "Deadlock"]
    ELSE IF Acquire(e.totalLock) = "panic" THEN Unwind(t, e)
    ELSE IF Acquire(e.totalLock) = "blocked" THEN [e EXCEPT !.ret = "Blocked"]
    ELSE [e EXCEPT !.difficulty =
                       IF e.total_forges % DIFFICULTY_INTERVAL = 0 /\ e.total_forges > 0
                       THEN @ + 1 ELSE @,
                   !.chainLock = IF @ = t THEN "free" ELSE @,
                   !.pc = "idle",
                   !.blk = <<>>,
                   !.ret = "Ok"]

NoCall == [op |-> "none", result |-> "none", forge |-> <<>>, value |-> 0]
Call(op, result) == [NoCall EXCEPT !.op = op, !.result = result]

\* The engine's fields after a step of thread t that left them as e.
Store(t, e) ==
    /\ difficulty' = e.difficulty
    /\ total_forges' = e.total_forges
    /\ height' = e.height
    /\ latest_hash' = e.latest_hash
    /\ used_prophecies' = e.used_prophecies
    /\ difficultyLock' = e.difficultyLock
    /\ totalLock' = e.totalLock
    /\ chainLock' = e.chainLock
    /\ applyPc' = [applyPc EXCEPT ![t] = e.pc]
    /\ applyBlk' = [applyBlk EXCEPT ![t] = e.blk]
    /\ last' = IF e.ret = "none" THEN last ELSE Call("apply_block", e.ret)

\* History: the block, whether validate_block accepts it now, and the state
\* the apply starts from.
Record(block) ==
    [block |-> block,
     accepted_by |-> {p \in ParentHashes : \E clock \in 0..MaxNow :
                         validate_block(block, p, clock) = "Ok"},
     height |-> height, latest_hash |-> latest_hash,
     used_prophecies |-> used_prophecies,
     total_forges |-> total_forges, difficulty |-> difficulty]

Applying ==
    {t \in Threads : applyPc[t] \in {"state_written", "total_written", "deadlocked"}}

\* A reader's successful read while an apply is running.
Observe(field, value) ==
    IF Applying = {} THEN seen
    ELSE [x \in (DOMAIN seen) \cup {field} |-> IF x = field THEN value ELSE seen[x]]

\* What a validate_forge call between its two reads has read so far.
ReadsInFlight ==
    IF validating = <<>> THEN <<>> ELSE [x \in {"difficulty"} |-> seen[x]]

\* The node receives a block; callers pass it, or the block extending it.
ReceiveBlock(block) ==
    /\ received = <<>>
    /\ received' = <<block>>
    /\ UNCHANGED <<difficulty, total_forges, height, latest_hash, used_prophecies,
                   difficultyLock, totalLock, chainLock, applyPc, applyBlk,
                   salt_from_timestamp, initial_difficulty, applied, last, seen,
                   validating>>
    /\ UNCHANGED <<poolVars, now, rpcVars, storeVars, cryptoVars>>

Candidates == IF received = <<>> THEN {} ELSE {received[1], Child(received[1])}

unchangedByApply == <<received, salt_from_timestamp, initial_difficulty, validating>>

\* apply_block, step by step.
ApplyBlockState(t, block) ==
    /\ applyPc[t] = "idle"
    /\ LET e == LockState(t, Engine(t), block)
       IN  /\ Store(t, e)
           /\ applied' = IF e.pc = "state_written"
                         THEN Append(applied, Record(block)) ELSE applied
           /\ seen' = IF e.pc = "state_written" THEN ReadsInFlight ELSE seen
    /\ UNCHANGED unchangedByApply
    /\ UNCHANGED <<poolVars, now, rpcVars, storeVars, cryptoVars>>

ApplyBlockTotal(t) ==
    /\ applyPc[t] = "state_written"
    /\ LockTotal(t, Engine(t)).ret # "Blocked"
    /\ Store(t, LockTotal(t, Engine(t)))
    /\ UNCHANGED <<unchangedByApply, applied, seen>>
    /\ UNCHANGED <<poolVars, now, rpcVars, storeVars, cryptoVars>>

ApplyBlockAdjust(t) ==
    /\ applyPc[t] = "total_written"
    /\ \E outcome \in RecursiveReadOutcomes :
          /\ AdjustAndReturn(t, Engine(t), outcome).ret # "Blocked"
          /\ Store(t, AdjustAndReturn(t, Engine(t), outcome))
    /\ UNCHANGED <<unchangedByApply, applied, seen>>
    /\ UNCHANGED <<poolVars, now, rpcVars, storeVars, cryptoVars>>

\* apply_block as one call, no other thread running.
apply_block(t, block) ==
    /\ applyPc[t] = "idle"
    /\ LET e1 == LockState(t, Engine(t), block)
           e2 == LockTotal(t, e1)
       IN  /\ IF e1.ret # "none" THEN Store(t, e1)
              ELSE IF e2.ret # "none" THEN Store(t, e2)
              ELSE \E outcome \in RecursiveReadOutcomes :
                      Store(t, AdjustAndReturn(t, e2, outcome))
           /\ applied' = IF e1.pc = "state_written"
                         THEN Append(applied, Record(block)) ELSE applied
           /\ seen' = IF e1.pc = "state_written" THEN ReadsInFlight ELSE seen
    /\ UNCHANGED unchangedByApply
    /\ UNCHANGED <<poolVars, now, rpcVars, storeVars, cryptoVars>>

----------------------------------------------------------------------------
\* ConsensusEngine: the reading calls, issued one at a time by a reader thread.

ReadResult(lock) == IF Acquire(lock) = "ok" THEN "Ok"
                    ELSE IF Acquire(lock) = "panic" THEN "Panic" ELSE "Blocked"

engineState == <<difficulty, total_forges, height, latest_hash, used_prophecies,
                 difficultyLock, totalLock, chainLock, applyPc, applyBlk, received,
                 salt_from_timestamp, initial_difficulty, applied>>

get_height ==
    /\ validating = <<>>
    /\ last' = [Call("get_height", ReadResult(chainLock)) EXCEPT !.value =
                   IF Acquire(chainLock) = "ok" THEN height ELSE 0]
    /\ seen' = IF Acquire(chainLock) = "ok" THEN Observe("height", height) ELSE seen
    /\ UNCHANGED <<engineState, validating>>
    /\ UNCHANGED <<poolVars, now, rpcVars, storeVars, cryptoVars>>

get_total_forges ==
    /\ validating = <<>>
    /\ last' = [Call("get_total_forges", ReadResult(totalLock)) EXCEPT !.value =
                   IF Acquire(totalLock) = "ok" THEN total_forges ELSE 0]
    /\ seen' = IF Acquire(totalLock) = "ok"
               THEN Observe("total_forges", total_forges) ELSE seen
    /\ UNCHANGED <<engineState, validating>>
    /\ UNCHANGED <<poolVars, now, rpcVars, storeVars, cryptoVars>>

get_difficulty ==
    /\ validating = <<>>
    /\ last' = [Call("get_difficulty", ReadResult(difficultyLock)) EXCEPT !.value =
                   IF Acquire(difficultyLock) = "ok" THEN difficulty ELSE 0]
    /\ seen' = IF Acquire(difficultyLock) = "ok"
               THEN Observe("difficulty", difficulty) ELSE seen
    /\ UNCHANGED <<engineState, validating>>
    /\ UNCHANGED <<poolVars, now, rpcVars, storeVars, cryptoVars>>

\* validate_forge up to and including its difficulty read (lines 80-103).
ValidateForgeBegin(forge) ==
    /\ validating = <<>>
    /\ UNCHANGED engineState
    /\ IF ValidateDerivation(forge) # "Ok"
       THEN /\ last' = [Call("validate_forge", ValidateDerivation(forge))
                           EXCEPT !.forge = <<forge>>]
            /\ UNCHANGED <<validating, seen>>
       ELSE IF ValidateDifficulty(forge) # "Ok"
       THEN /\ last' = [Call("validate_forge", ValidateDifficulty(forge))
                           EXCEPT !.forge = <<forge>>]
            /\ seen' = IF Acquire(difficultyLock) = "ok"
                       THEN Observe("difficulty", difficulty) ELSE seen
            /\ UNCHANGED validating
       ELSE /\ validating' = <<forge>>
            /\ seen' = [x \in (IF Applying = {} THEN {} ELSE DOMAIN seen)
                                 \cup {"difficulty"} |->
                            IF x = "difficulty" THEN difficulty ELSE seen[x]]
            /\ last' = NoCall
    /\ UNCHANGED <<poolVars, now, rpcVars, storeVars, cryptoVars>>

\* validate_forge from its chain_state read to its return (lines 105-111).
ValidateForgeEnd ==
    /\ validating # <<>>
    /\ Acquire(chainLock) # "blocked"
    /\ last' = [Call("validate_forge", ValidateReplay(validating[1]))
                   EXCEPT !.forge = validating]
    /\ seen' = IF Acquire(chainLock) = "ok"
               THEN Observe("used_prophecies", DOMAIN used_prophecies) ELSE seen
    /\ validating' = <<>>
    /\ UNCHANGED engineState
    /\ UNCHANGED <<poolVars, now, rpcVars, storeVars, cryptoVars>>

\* validate_forge as one call.
ValidateForgeCall(forge) ==
    /\ validating = <<>>
    /\ last' = [Call("validate_forge", validate_forge(forge)) EXCEPT !.forge = <<forge>>]
    /\ UNCHANGED <<engineState, validating, seen>>
    /\ UNCHANGED <<poolVars, now, rpcVars, storeVars, cryptoVars>>

ValidateBlockCall(block, parent_hash, clock) ==
    /\ validating = <<>>
    /\ last' = Call("validate_block", validate_block(block, parent_hash, clock))
    /\ UNCHANGED <<engineState, validating, seen>>
    /\ UNCHANGED <<poolVars, now, rpcVars, storeVars, cryptoVars>>

----------------------------------------------------------------------------
\* ForgePool (mempool/mod.rs).

PoolHashes == {<<0, 0>>, <<0, 1>>, <<1, 0>>, <<1, 1>>}

\* create_test_forge(timestamp, proof_hash).
PoolForge(proof, ts) ==
    Forge(CANONICAL_PROPHECY, <<1, 2>>, derive_taproot_address(<<1, 2>>), proof, ts)

\* The forges submitted to the pool: one per hash, and a second forge for the
\* first hash.  Timestamps run against the order of the hashes.
PoolForges ==
    {PoolForge(<<0, 0>>, 2), PoolForge(<<0, 1>>, 1), PoolForge(<<1, 0>>, 2),
     PoolForge(<<1, 1>>, 1), PoolForge(<<0, 0>>, 1)}

\* The forge lists of the blocks passed to remove_block_forges.
PoolBlocks == {<<(<<0, 0>>)>>, <<(<<0, 1>>), (<<0, 0>>)>>}

Timeouts == {1}

ForgePriority(ts, fee) == [timestamp |-> ts, fee |-> fee]
MempoolEntry(forge, priority, added_at) ==
    [forge |-> forge, priority |-> priority, added_at |-> added_at]

Pool == [pending |-> pending, priority_queue |-> priority_queue,
         pendingLock |-> pendingLock, queueLock |-> queueLock, ret |-> "none",
         value |-> 0, forge |-> <<>>]

\* pending.write().unwrap() then priority_queue.write().unwrap(): a panic at
\* the second unwrap unwinds through the first guard.
WriteBoth(p) ==
    IF Acquire(p.pendingLock) = "panic" THEN [p EXCEPT !.ret = "Panic"]
    ELSE IF Acquire(p.queueLock) = "panic"
    THEN [p EXCEPT !.ret = "Panic", !.pendingLock = "poisoned"]
    ELSE p

MapWith(f, k, v) == [x \in (DOMAIN f) \cup {k} |-> IF x = k THEN v ELSE f[x]]
MapWithout(f, ks) == [x \in (DOMAIN f) \ ks |-> f[x]]

\* The capacity test of add_forge (line 57).
AtCapacity(len, limit) == len >= limit

\* add_forge (lines 47-84), at clock value `clock`.
AddForge(p, forge, clock) ==
    LET w == WriteBoth(p)
        priority == ForgePriority(forge.timestamp, min_fee)
    IN  IF w.ret # "none" THEN w
        ELSE IF forge.proof_hash \in DOMAIN w.pending
        THEN [w EXCEPT !.ret = "MempoolDuplicate"]
        ELSE IF AtCapacity(Cardinality(DOMAIN w.pending), max_size)
        THEN [w EXCEPT !.ret = "MempoolFull"]
        ELSE [w EXCEPT !.pending = MapWith(@, forge.proof_hash,
                                           MempoolEntry(forge, priority, clock)),
                       !.priority_queue = @ \cup {<<forge.proof_hash, priority>>},
                       !.ret = "Ok"]

\* What remove_forge takes out of the priority index (line 95).
IndexKeepsAll(index, hash, entry) == index
IndexWithout(index, hash, entry) == index \ {<<hash, entry.priority>>}

\* remove_forge reading the entry with pending.get instead of pending.remove.
RemoveForgeKeepsPending(p, hash) ==
    LET w == WriteBoth(p)
    IN  IF w.ret # "none" THEN w
        ELSE IF hash \notin DOMAIN w.pending THEN [w EXCEPT !.ret = "NotFound"]
        ELSE [w EXCEPT !.priority_queue = IndexWithout(@, hash, w.pending[hash]),
                       !.forge = <<w.pending[hash].forge>>,
                       !.ret = "Ok"]

\* remove_forge (lines 87-98).
RemoveForge(p, hash) ==
    LET w == WriteBoth(p)
    IN  IF w.ret # "none" THEN w
        ELSE IF hash \notin DOMAIN w.pending THEN [w EXCEPT !.ret = "NotFound"]
        ELSE [w EXCEPT !.pending = MapWithout(@, {hash}),
                       !.priority_queue = IndexWithout(@, hash, w.pending[hash]),
                       !.forge = <<w.pending[hash].forge>>,
                       !.ret = "Ok"]

\* clear (lines 148-153).
Clear(p) ==
    LET w == WriteBoth(p)
    IN  IF w.ret # "none" THEN w
        ELSE [w EXCEPT !.pending = <<>>, !.priority_queue = {}, !.ret = "Ok"]

\* The critical section of remove_expired (lines 162-183) with the clock value
\* read at line 157.  `now - entry.added_at` is a u64 subtraction: with
\* added_at > now it panics under overflow checks and wraps without them.
RemoveExpired(p, clock, timeout) ==
    LET w == WriteBoth(p)
        underflow == {h \in DOMAIN w.pending : w.pending[h].added_at > clock}
        expired == {h \in DOMAIN w.pending :
                       \/ h \in underflow
                       \/ clock - w.pending[h].added_at > timeout}
    IN  IF w.ret # "none" THEN w
        ELSE IF underflow # {} /\ overflow_checks
        THEN [w EXCEPT !.ret = "Panic", !.pendingLock = "poisoned",
                       !.queueLock = "poisoned"]
        ELSE [w EXCEPT !.pending = MapWithout(@, expired),
                       !.priority_queue =
                           @ \ {<<h, w.pending[h].priority>> : h \in expired},
                       !.value = Cardinality(expired),
                       !.ret = "Ok"]

\* pending.read().unwrap() then priority_queue.read().unwrap().
ReadBoth(p) ==
    IF Acquire(p.pendingLock) = "panic" \/ Acquire(p.queueLock) = "panic"
    THEN [p EXCEPT !.ret = "Panic"]
    ELSE p

\* Ord of [u8; 32]: lexicographic on the bytes.
RECURSIVE BytesLess(_, _)
BytesLess(a, b) ==
    IF a = <<>> \/ b = <<>> THEN b # <<>>
    ELSE IF Head(a) # Head(b) THEN Head(a) < Head(b)
    ELSE BytesLess(Tail(a), Tail(b))

\* The derived Ord of ForgePriority: timestamp, then fee.
PriorityLess(p, q) ==
    \/ p.timestamp < q.timestamp
    \/ p.timestamp = q.timestamp /\ p.fee < q.fee

\* The order of the BTreeSet's elements ([u8; 32], ForgePriority): the derived
\* Ord of the tuple, first component first.
IndexLess(x, y) ==
    \/ BytesLess(x[1], y[1])
    \/ x[1] = y[1] /\ PriorityLess(x[2], y[2])

\* priority_queue.iter().rev(): the elements from the greatest down.
RECURSIVE Descending(_)
Descending(index) ==
    IF index = {} THEN <<>>
    ELSE LET top == CHOOSE x \in index : \A y \in index \ {x} : IndexLess(y, x)
         IN  <<top>> \o Descending(index \ {top})

Take(seq, n) == [i \in 1..(IF n < Len(seq) THEN n ELSE Len(seq)) |-> seq[i]]

\* filter_map(|(hash, _)| pending.get(hash).map(|entry| entry.forge)).
RECURSIVE ForgesOf(_, _)
ForgesOf(index, entries) ==
    IF index = <<>> THEN <<>>
    ELSE (IF Head(index)[1] \in DOMAIN entries
          THEN <<entries[Head(index)[1]].forge>> ELSE <<>>)
         \o ForgesOf(Tail(index), entries)

\* get_forges_for_block (lines 119-129).
GetForgesForBlock(p, max_forges) ==
    LET r == ReadBoth(p)
    IN  IF r.ret # "none" THEN r
        ELSE [r EXCEPT !.forge = ForgesOf(Take(Descending(r.priority_queue), max_forges),
                                          r.pending),
                       !.value = max_forges,
                       !.ret = "Ok"]

\* remove_block_forges with remove_forge called for every forge of the block.
RECURSIVE RemoveBlockForgesUnchecked(_, _)
RemoveBlockForgesUnchecked(p, hashes) ==
    IF hashes = <<>> THEN [p EXCEPT !.ret = "Ok"]
    ELSE LET r == RemoveForge(p, Head(hashes))
         IN  IF r.ret # "Ok" THEN r
             ELSE RemoveBlockForgesUnchecked([r EXCEPT !.ret = "none", !.forge = <<>>],
                                             Tail(hashes))

\* remove_block_forges (lines 132-139) with no other thread in between:
\* contains(), then remove_forge()? for the forges found.
RECURSIVE RemoveBlockForges(_, _)
RemoveBlockForges(p, hashes) ==
    IF hashes = <<>> THEN [p EXCEPT !.ret = "Ok"]
    ELSE IF Acquire(p.pendingLock) = "panic" THEN [p EXCEPT !.ret = "Panic"]
    ELSE IF Head(hashes) \in DOMAIN p.pending
    THEN LET r == RemoveForge(p, Head(hashes))
         IN  IF r.ret # "Ok" THEN r
             ELSE RemoveBlockForges([r EXCEPT !.ret = "none", !.forge = <<>>],
                                    Tail(hashes))
    ELSE RemoveBlockForges(p, Tail(hashes))

\* The pool's fields after a call that left them as p.
StorePool(p, op) ==
    /\ pending' = p.pending
    /\ priority_queue' = p.priority_queue
    /\ pendingLock' = p.pendingLock
    /\ queueLock' = p.queueLock
    /\ poolLast' = [Call(op, p.ret) EXCEPT !.value = p.value, !.forge = p.forge]

Idle == [op |-> "idle", clock |-> 0, timeout |-> 0, rest |-> <<>>, checked |-> FALSE,
         arg |-> <<>>, held |-> 0]

poolConfig == <<max_size, min_fee, overflow_checks>>

add_forge(t, forge) ==
    /\ poolPc[t] = Idle
    /\ StorePool(AddForge(Pool, forge, now), "add_forge")
    /\ UNCHANGED <<poolPc, poolConfig, readers, now, engineVars, rpcVars, storeVars, cryptoVars>>

remove_forge(t, hash) ==
    /\ poolPc[t] = Idle
    /\ StorePool(RemoveForge(Pool, hash), "remove_forge")
    /\ UNCHANGED <<poolPc, poolConfig, readers, now, engineVars, rpcVars, storeVars, cryptoVars>>

clear(t) ==
    /\ poolPc[t] = Idle
    /\ StorePool(Clear(Pool), "clear")
    /\ UNCHANGED <<poolPc, poolConfig, readers, now, engineVars, rpcVars, storeVars, cryptoVars>>

get_forges_for_block(t, max_forges) ==
    /\ poolPc[t] = Idle
    /\ StorePool(GetForgesForBlock(Pool, max_forges), "get_forges_for_block")
    /\ UNCHANGED <<poolPc, poolConfig, readers, now, engineVars, rpcVars, storeVars, cryptoVars>>

\* size (lines 113-116).
size(t) ==
    /\ poolPc[t] = Idle
    /\ poolLast' = [Call("size", ReadResult(pendingLock)) EXCEPT !.value =
                       IF Acquire(pendingLock) = "ok"
                       THEN Cardinality(DOMAIN pending) ELSE 0]
    /\ UNCHANGED <<pending, priority_queue, pendingLock, queueLock, poolPc,
                   poolConfig, readers, now, engineVars, rpcVars, storeVars, cryptoVars>>

\* remove_expired: the clock read at line 157, before any lock is taken.
RemoveExpiredReadClock(t, timeout) ==
    /\ poolPc[t] = Idle
    /\ poolPc' = [poolPc EXCEPT ![t] =
                     [Idle EXCEPT !.op = "remove_expired", !.clock = now,
                                  !.timeout = timeout]]
    /\ UNCHANGED <<pending, priority_queue, pendingLock, queueLock, poolLast,
                   poolConfig, readers, now, engineVars, rpcVars, storeVars, cryptoVars>>

\* remove_expired: lines 162-183.
RemoveExpiredSection(t) ==
    /\ poolPc[t].op = "remove_expired"
    /\ StorePool(RemoveExpired(Pool, poolPc[t].clock, poolPc[t].timeout),
                 "remove_expired")
    /\ poolPc' = [poolPc EXCEPT ![t] = Idle]
    /\ UNCHANGED <<poolConfig, readers, now, engineVars, rpcVars, storeVars, cryptoVars>>

\* remove_block_forges (lines 132-139): the call, up to its first lock.
RemoveBlockForgesCall(t, hashes) ==
    /\ poolPc[t] = Idle
    /\ poolPc' = [poolPc EXCEPT ![t] =
                     [Idle EXCEPT !.op = "remove_block_forges", !.rest = hashes]]
    /\ UNCHANGED <<pending, priority_queue, pendingLock, queueLock, poolLast,
                   poolConfig, readers, now, engineVars, rpcVars, storeVars, cryptoVars>>

\* remove_block_forges: self.contains(&forge.proof_hash) for the next forge,
\* or the return after the last one.
RemoveBlockForgesContains(t) ==
    /\ poolPc[t].op = "remove_block_forges"
    /\ ~poolPc[t].checked
    /\ UNCHANGED <<pending, priority_queue, pendingLock, queueLock,
                   poolConfig, readers, now, engineVars, rpcVars, storeVars, cryptoVars>>
    /\ IF poolPc[t].rest = <<>>
       THEN /\ poolLast' = Call("remove_block_forges", "Ok")
            /\ poolPc' = [poolPc EXCEPT ![t] = Idle]
       ELSE IF Acquire(pendingLock) = "panic"
       THEN /\ poolLast' = Call("remove_block_forges", "Panic")
            /\ poolPc' = [poolPc EXCEPT ![t] = Idle]
       ELSE IF Head(poolPc[t].rest) \in DOMAIN pending
       THEN /\ poolPc' = [poolPc EXCEPT ![t].checked = TRUE]
            /\ UNCHANGED poolLast
       ELSE /\ poolPc' = [poolPc EXCEPT ![t].rest = Tail(@)]
            /\ UNCHANGED poolLast

\* remove_block_forges: self.remove_forge(&forge.proof_hash)? for the forge
\* that contains() found.
RemoveBlockForgesRemove(t) ==
    /\ poolPc[t].op = "remove_block_forges"
    /\ poolPc[t].checked
    /\ LET p == RemoveForge(Pool, Head(poolPc[t].rest))
       IN  /\ pending' = p.pending
           /\ priority_queue' = p.priority_queue
           /\ pendingLock' = p.pendingLock
           /\ queueLock' = p.queueLock
           /\ IF p.ret = "Ok"
              THEN /\ poolPc' = [poolPc EXCEPT ![t].rest = Tail(@),
                                               ![t].checked = FALSE]
                   /\ UNCHANGED poolLast
              ELSE /\ poolPc' = [poolPc EXCEPT ![t] = Idle]
                   /\ poolLast' = Call("remove_block_forges", p.ret)
    /\ UNCHANGED <<poolConfig, readers, now, engineVars, rpcVars, storeVars, cryptoVars>>

\* remove_block_forges as one call, no other thread running.
remove_block_forges(t, hashes) ==
    /\ poolPc[t] = Idle
    /\ StorePool(RemoveBlockForges(Pool, hashes), "remove_block_forges")
    /\ UNCHANGED <<poolPc, poolConfig, readers, now, engineVars, rpcVars, storeVars, cryptoVars>>

\* remove_expired as one call, no other thread running.
remove_expired(t, timeout) ==
    /\ poolPc[t] = Idle
    /\ StorePool(RemoveExpired(Pool, now, timeout), "remove_expired")
    /\ UNCHANGED <<poolPc, poolConfig, readers, now, engineVars, rpcVars, storeVars, cryptoVars>>

\* The clock advances.
Tick ==
    /\ now < MaxNow
    /\ now' = now + 1
    /\ UNCHANGED <<poolVars, engineVars, rpcVars, storeVars, cryptoVars>>

PoolNext ==
    \/ \E t \in Threads, f \in PoolForges : add_forge(t, f)
    \/ \E t \in Threads, h \in PoolHashes : remove_forge(t, h)
    \/ \E t \in Threads : clear(t)
    \/ \E t \in Threads : size(t)
    \/ \E t \in Threads, timeout \in Timeouts : RemoveExpiredReadClock(t, timeout)
    \/ \E t \in Threads : RemoveExpiredSection(t)
    \/ \E t \in Threads, b \in PoolBlocks : RemoveBlockForgesCall(t, b)
    \/ \E t \in Threads : RemoveBlockForgesContains(t)
    \/ \E t \in Threads : RemoveBlockForgesRemove(t)
    \/ Tick

----------------------------------------------------------------------------
\* ForgePool, lock by lock: a call takes its locks one at a time, in the order
\* of its source lines, runs its body with all of them held and drops them when
\* it returns.

WriteGuard(lock) == [lock |-> lock, mode |-> "write"]
ReadGuard(lock) == [lock |-> lock, mode |-> "read"]

\* The guards get_forges_for_block would take with lines 120 and 121 swapped.
LockOrderIndexFirstOnRead(call) ==
    IF call \in {"add_forge", "remove_forge", "clear", "remove_expired"}
    THEN <<WriteGuard("pending"), WriteGuard("priority_queue")>>
    ELSE IF call = "get_forges_for_block"
    THEN <<ReadGuard("priority_queue"), ReadGuard("pending")>>
    ELSE IF call \in {"size", "contains"} THEN <<ReadGuard("pending")>>
    ELSE <<>>

\* The guards each function takes, in the order it takes them (lines 48-49,
\* 88-89, 108, 114, 120-121, 149-150, 162-163).
LockOrder(call) ==
    IF call \in {"add_forge", "remove_forge", "clear", "remove_expired"}
    THEN <<WriteGuard("pending"), WriteGuard("priority_queue")>>
    ELSE IF call = "get_forges_for_block"
    THEN <<ReadGuard("pending"), ReadGuard("priority_queue")>>
    ELSE IF call \in {"size", "contains"} THEN <<ReadGuard("pending")>>
    ELSE <<>>

\* The function whose locks thread t is taking: remove_block_forges takes none
\* itself, it calls contains and then remove_forge for each forge of the block.
CurrentCall(t) ==
    IF poolPc[t].op # "remove_block_forges" THEN poolPc[t].op
    ELSE IF poolPc[t].rest = <<>> THEN "return"
    ELSE IF poolPc[t].checked THEN "remove_forge"
    ELSE "contains"

InCall(t) == poolPc[t].op # "idle"
Writer(lock) == IF lock = "pending" THEN pendingLock ELSE queueLock
NextGuard(t) == LockOrder(CurrentCall(t))[poolPc[t].held + 1]
AllHeld(t) == poolPc[t].held = Len(LockOrder(CurrentCall(t)))

\* write() waits for every guard to go, read() for the write guard.
Available(guard) ==
    /\ Writer(guard.lock) = "free"
    /\ guard.mode = "write" => readers[guard.lock] = {}

\* Thread t is inside .read() / .write() and the lock is not to be had.
Waiting(t) ==
    /\ InCall(t)
    /\ ~AllHeld(t)
    /\ Writer(NextGuard(t).lock) # "poisoned"
    /\ ~Available(NextGuard(t))

\* The lock after thread t dropped its guard: a write guard dropped by a
\* panicking thread poisons it.
Dropped(t, writer, panicked) ==
    IF writer = t THEN (IF panicked THEN "poisoned" ELSE "free") ELSE writer

ReadersWithout(t) == [lock \in DOMAIN readers |-> readers[lock] \ {t}]

\* A call of one of the functions that take their locks at the top.
LockCalls ==
    {<<"add_forge", <<f>>>> : f \in {PoolForge(<<0, 0>>, 2), PoolForge(<<0, 1>>, 1)}}
    \cup {<<"remove_forge", <<(<<0, 0>>)>>>>, <<"contains", <<(<<0, 1>>)>>>>,
          <<"clear", <<>>>>, <<"size", <<>>>>, <<"get_forges_for_block", <<1>>>>}

LockCall(t, call) ==
    /\ poolPc[t] = Idle
    /\ poolPc' = [poolPc EXCEPT ![t] = [Idle EXCEPT !.op = call[1], !.arg = call[2]]]
    /\ UNCHANGED <<pending, priority_queue, pendingLock, queueLock, poolLast,
                   poolConfig, readers, now, engineVars, rpcVars, storeVars, cryptoVars>>

\* The next .read().unwrap() / .write().unwrap() of thread t's call.
LockAcquire(t) ==
    /\ InCall(t)
    /\ ~AllHeld(t)
    /\ ~Waiting(t)
    /\ IF Writer(NextGuard(t).lock) = "poisoned"
       THEN /\ pendingLock' = Dropped(t, pendingLock, TRUE)
            /\ queueLock' = Dropped(t, queueLock, TRUE)
            /\ readers' = ReadersWithout(t)
            /\ poolPc' = [poolPc EXCEPT ![t] = Idle]
            /\ poolLast' = Call(poolPc[t].op, "Panic")
       ELSE /\ pendingLock' = IF NextGuard(t) = WriteGuard("pending") THEN t
                              ELSE pendingLock
            /\ queueLock' = IF NextGuard(t) = WriteGuard("priority_queue") THEN t
                            ELSE queueLock
            /\ readers' = IF NextGuard(t).mode = "read"
                          THEN [readers EXCEPT ![NextGuard(t).lock] = @ \cup {t}]
                          ELSE readers
            /\ poolPc' = [poolPc EXCEPT ![t].held = @ + 1]
            /\ UNCHANGED poolLast
    /\ UNCHANGED <<pending, priority_queue, poolConfig, now, engineVars, rpcVars, storeVars, cryptoVars>>

\* size (lines 113-116) and contains (lines 107-110) with the guard held.
Size(p) == [p EXCEPT !.value = Cardinality(DOMAIN p.pending), !.ret = "Ok"]
Contains(p, hash) ==
    [p EXCEPT !.value = IF hash \in DOMAIN p.pending THEN 1 ELSE 0, !.ret = "Ok"]

\* The pool as the body of a call sees it: the guards are its own.
Held == [Pool EXCEPT !.pendingLock = "free", !.queueLock = "free"]

\* The body of thread t's call.
Body(t) ==
    LET call == CurrentCall(t)
        pc == poolPc[t]
    IN  IF call = "add_forge" THEN AddForge(Held, pc.arg[1], now)
        ELSE IF call = "remove_forge"
        THEN RemoveForge(Held, IF pc.op = "remove_forge" THEN pc.arg[1]
                               ELSE Head(pc.rest))
        ELSE IF call = "clear" THEN Clear(Held)
        ELSE IF call = "remove_expired" THEN RemoveExpired(Held, pc.clock, pc.timeout)
        ELSE IF call = "get_forges_for_block" THEN GetForgesForBlock(Held, pc.arg[1])
        ELSE IF call = "size" THEN Size(Held)
        ELSE IF call = "contains"
        THEN Contains(Held, IF pc.op = "contains" THEN pc.arg[1] ELSE Head(pc.rest))
        ELSE [Held EXCEPT !.ret = "Ok"]

\* Thread t's call runs its body with every guard held and returns, which
\* drops the guards; remove_block_forges goes on with its next call.
LockSection(t) ==
    /\ InCall(t)
    /\ AllHeld(t)
    /\ LET p == Body(t)
           inner == poolPc[t].op = "remove_block_forges" /\ CurrentCall(t) # "return"
       IN  /\ pending' = p.pending
           /\ priority_queue' = p.priority_queue
           /\ pendingLock' = Dropped(t, pendingLock, p.pendingLock = "poisoned")
           /\ queueLock' = Dropped(t, queueLock, p.queueLock = "poisoned")
           /\ readers' = ReadersWithout(t)
           /\ IF inner /\ p.ret = "Ok"
              THEN /\ poolPc' = [poolPc EXCEPT ![t] =
                        IF CurrentCall(t) = "contains" /\ p.value = 1
                        THEN [@ EXCEPT !.checked = TRUE, !.held = 0]
                        ELSE [@ EXCEPT !.rest = Tail(@), !.checked = FALSE, !.held = 0]]
                   /\ UNCHANGED poolLast
              ELSE /\ poolPc' = [poolPc EXCEPT ![t] = Idle]
                   /\ poolLast' = [Call(poolPc[t].op, p.ret)
                                      EXCEPT !.value = p.value, !.forge = p.forge]
    /\ UNCHANGED <<poolConfig, now, engineVars, rpcVars, storeVars, cryptoVars>>

LockNext ==
    \/ \E t \in Threads, call \in LockCalls : LockCall(t, call)
    \/ \E t \in Threads, timeout \in Timeouts : RemoveExpiredReadClock(t, timeout)
    \/ \E t \in Threads : RemoveBlockForgesCall(t, <<(<<0, 1>>), (<<0, 0>>)>>)
    \/ \E t \in Threads : LockAcquire(t)
    \/ \E t \in Threads : LockSection(t)
    \/ Tick

----------------------------------------------------------------------------
\* RpcServer (rpc/mod.rs).

\* serde_json::Value, by what the handlers ask of it: its kind, and its number
\* or text.
Json(kind, text, num) == [kind |-> kind, text |-> text, num |-> num]
JsonNull == Json("null", "", 0)
JsonU64(n) == Json("u64", "", n)
JsonString(text) == Json("string", text, 0)
JsonObject(text, n) == Json("object", text, n)

as_u64(v) == IF v.kind = "u64" THEN <<v.num>> ELSE <<>>
as_str(v) == IF v.kind = "string" THEN <<v.text>> ELSE <<>>

\* Result<Value>.
HandlerOk(value) == [ok |-> TRUE, value |-> value, message |-> ""]
HandlerErr(message) == [ok |-> FALSE, value |-> JsonNull, message |-> message]

\* The closures of register_default_handlers, and two a caller registers:
\* params is <<>> for None and <<v>> for Some(v).
RunHandler(handler, params) ==
    IF handler = "getblockcount" THEN HandlerOk(JsonU64(server_state.chain_height))
    ELSE IF handler = "getinfo"
    THEN HandlerOk(JsonObject("info", server_state.chain_height))
    ELSE IF handler = "getblock"
    THEN (IF params # <<>> /\ as_u64(params[1]) # <<>>
          THEN HandlerOk(JsonObject("block", as_u64(params[1])[1]))
          ELSE HandlerErr("Missing or invalid 'height' parameter"))
    ELSE IF handler = "getforge"
    THEN (IF params # <<>> /\ as_str(params[1]) # <<>>
          THEN HandlerOk(JsonObject(as_str(params[1])[1], 0))
          ELSE HandlerErr("Missing or invalid 'proof_hash' parameter"))
    ELSE IF handler = "submitforge"
    THEN (IF params # <<>> THEN HandlerOk(JsonObject("submitted", 0))
          ELSE HandlerErr("Missing forge data"))
    ELSE IF handler = "getpeerinfo"
    THEN HandlerOk(JsonObject("peers", server_state.peer_count))
    ELSE IF handler = "validateprophecy"
    THEN (IF params # <<>> /\ as_str(params[1]) # <<>>
          THEN HandlerOk(JsonObject(as_str(params[1])[1],
                                    IF as_str(params[1])[1] = CANONICAL_PROPHECY
                                    THEN 1 ELSE 0))
          ELSE HandlerErr("Missing or invalid 'prophecy' parameter"))
    ELSE IF handler = "getdifficulty" THEN HandlerOk(JsonU64(2))
    ELSE IF handler = "custom_ok" THEN HandlerOk(JsonNull)
    ELSE HandlerErr("custom failure")

\* register_default_handlers with its last register_handler call missing.
DefaultMethodsWithoutGetdifficulty ==
    {"getblockcount", "getinfo", "getblock", "getforge", "submitforge",
     "getpeerinfo", "validateprophecy"}

\* The methods register_default_handlers registers (lines 78-168).
DefaultMethods ==
    {"getblockcount", "getinfo", "getblock", "getforge", "submitforge",
     "getpeerinfo", "validateprophecy", "getdifficulty"}

PARSE_ERROR == -32700
INVALID_REQUEST == -32600
METHOD_NOT_FOUND == -32601
INTERNAL_ERROR == -32603

JsonRpcRequest(jsonrpc, method, params, id) ==
    [jsonrpc |-> jsonrpc, method |-> method, params |-> params, id |-> id]

JsonRpcError(code, message, data) == [code |-> code, message |-> message, data |-> data]

\* JsonRpcResponse: result and error are <<>> for None.
ResultResponse(value, id) ==
    [jsonrpc |-> "2.0", result |-> <<value>>, error |-> <<>>, id |-> id]
ErrorResponse(error, id) ==
    [jsonrpc |-> "2.0", result |-> <<>>, error |-> <<error>>, id |-> id]

\* serde_json::to_string(&response): a None result or error is left out of
\* the object (skip_serializing_if, lines 23-26).
to_string(response) ==
    [field \in {"jsonrpc", "id"}
               \cup (IF response.result # <<>> THEN {"result"} ELSE {})
               \cup (IF response.error # <<>> THEN {"error"} ELSE {}) |->
        IF field = "jsonrpc" THEN JsonString(response.jsonrpc)
        ELSE IF field = "id" THEN response.id
        ELSE IF field = "result" THEN response.result[1]
        ELSE response.error[1]]

\* A request body: text that is no JSON at all, a JSON value that is no
\* object, or an object with some of the four members (<<>> for a member the
\* object does not have).
RequestBody(syntax, jsonrpc, method, params, id) ==
    [syntax |-> syntax, jsonrpc |-> jsonrpc, method |-> method,
     params |-> params, id |-> id]

\* serde_json::from_str::<JsonRpcRequest> (line 242): jsonrpc and method must
\* be strings and id must be there; params may be left out, and null is None.
FromStr(body) ==
    IF body.syntax = "invalid" THEN [ok |-> FALSE, message |-> "expected value"]
    ELSE IF body.syntax # "object" THEN [ok |-> FALSE, message |-> "invalid type"]
    ELSE IF body.jsonrpc = <<>> THEN [ok |-> FALSE, message |-> "missing field jsonrpc"]
    ELSE IF body.jsonrpc[1].kind # "string"
    THEN [ok |-> FALSE, message |-> "invalid type"]
    ELSE IF body.method = <<>> THEN [ok |-> FALSE, message |-> "missing field method"]
    ELSE IF body.method[1].kind # "string"
    THEN [ok |-> FALSE, message |-> "invalid type"]
    ELSE IF body.id = <<>> THEN [ok |-> FALSE, message |-> "missing field id"]
    ELSE [ok |-> TRUE,
          request |-> JsonRpcRequest(body.jsonrpc[1].text, body.method[1].text,
                                     IF body.params = <<>> \/ body.params[1].kind = "null"
                                     THEN <<>> ELSE body.params,
                                     body.id[1])]

\* The error of a handler that failed (lines 226-236), with another code.
HandlerErrorWithInvalidParams(message, id) ==
    ErrorResponse(JsonRpcError(-32602, "Invalid params", <<[error |-> message]>>), id)

\* The response to a handler's error (lines 226-236).
HandlerError(message, id) ==
    ErrorResponse(JsonRpcError(INTERNAL_ERROR, "Internal error",
                               <<[error |-> message]>>), id)

\* The response to a body that does not parse (lines 244-254), with the code
\* of an invalid request.
ParseErrorAsInvalidRequest(message) ==
    ErrorResponse(JsonRpcError(INVALID_REQUEST, "Parse error",
                               <<[error |-> message]>>), JsonNull)

\* The response to a body that does not parse (lines 244-254).
ParseError(message) ==
    ErrorResponse(JsonRpcError(PARSE_ERROR, "Parse error",
                               <<[error |-> message]>>), JsonNull)

\* handle_request (lines 184-238): the response, and the handler it ran
\* (<<>> when it ran none).
Dispatch(request) ==
    IF request.jsonrpc # "2.0"
    THEN [response |-> ErrorResponse(
                           JsonRpcError(INVALID_REQUEST,
                                        "Invalid Request - jsonrpc must be '2.0'", <<>>),
                           request.id),
          invoked |-> <<>>]
    ELSE IF request.method \notin DOMAIN handlers
    THEN [response |-> ErrorResponse(
                           JsonRpcError(METHOD_NOT_FOUND, "Method not found", <<>>),
                           request.id),
          invoked |-> <<>>]
    ELSE LET outcome == RunHandler(handlers[request.method], request.params)
         IN  [response |-> IF outcome.ok
                           THEN ResultResponse(outcome.value, request.id)
                           ELSE HandlerError(outcome.message, request.id),
              invoked |-> <<handlers[request.method]>>]

\* What rpcLast records of a call.
RpcCall(entry, request, body, response, output, invoked) ==
    [entry |-> entry, request |-> request, body |-> body, response |-> response,
     output |-> output, invoked |-> invoked]

\* The requests and bodies a client sends.
RpcIds == {JsonU64(1), JsonString("a")}
RpcMethods == DefaultMethods \cup {"custom", "unknown"}
RpcParams == {<<>>, <<JsonNull>>, <<JsonU64(1)>>, <<JsonString(CANONICAL_PROPHECY)>>}
Requests ==
    {JsonRpcRequest(jsonrpc, method, params, id) :
        jsonrpc \in {"2.0", "1.0"}, method \in RpcMethods,
        params \in RpcParams, id \in RpcIds}
Bodies ==
    {RequestBody("invalid", <<>>, <<>>, <<>>, <<>>), RequestBody("scalar", <<>>, <<>>, <<>>, <<>>)}
    \cup {RequestBody("object", jsonrpc, method, params, id) :
            jsonrpc \in {<<>>, <<JsonString("2.0")>>, <<JsonString("1.0")>>, <<JsonU64(2)>>},
            method \in {<<>>, <<JsonString("getblock")>>, <<JsonString("getdifficulty")>>,
                        <<JsonString("unknown")>>},
            params \in {<<>>, <<JsonNull>>, <<JsonU64(1)>>},
            id \in {<<>>, <<JsonU64(1)>>}}

\* handle_request, called with a request value.
HandleRequest(request) ==
    /\ rpcLast' = RpcCall("handle_request", <<request>>, <<>>,
                          <<Dispatch(request).response>>, <<>>,
                          Dispatch(request).invoked)
    /\ UNCHANGED <<handlers, server_state, storeVars, cryptoVars, engineVars, poolVars, now>>

\* handle_request_str (lines 241-261).
HandleRequestStr(body) ==
    /\ rpcLast' =
         IF FromStr(body).ok
         THEN LET answer == Dispatch(FromStr(body).request)
              IN  RpcCall("handle_request_str", <<FromStr(body).request>>, <<body>>,
                          <<answer.response>>, <<to_string(answer.response)>>,
                          answer.invoked)
         ELSE RpcCall("handle_request_str", <<>>, <<body>>,
                      <<ParseError(FromStr(body).message)>>,
                      <<to_string(ParseError(FromStr(body).message))>>, <<>>)
    /\ UNCHANGED <<handlers, server_state, storeVars, cryptoVars, engineVars, poolVars, now>>

\* register_handler (lines 171-181): insert or replace.
RegisterHandler(method, handler) ==
    /\ handlers' = [m \in DOMAIN handlers \cup {method} |->
                      IF m = method THEN handler ELSE handlers[m]]
    /\ rpcLast' = RpcCall("register_handler", <<>>, <<>>, <<>>, <<>>, <<>>)
    /\ UNCHANGED <<server_state, storeVars, cryptoVars, engineVars, poolVars, now>>

\* update_state (lines 264-269).
UpdateState(chain_height, forges, peers) ==
    /\ server_state' = [chain_height |-> chain_height, total_forges |-> forges,
                        peer_count |-> peers]
    /\ rpcLast' = RpcCall("update_state", <<>>, <<>>, <<>>, <<>>, <<>>)
    /\ UNCHANGED <<handlers, storeVars, cryptoVars, engineVars, poolVars, now>>

\* RpcServer::new (lines 58-71).
RpcInit ==
    /\ handlers = [method \in DefaultMethods |-> method]
    /\ server_state = [chain_height |-> 0, total_forges |-> 0, peer_count |-> 0]
    /\ rpcLast = RpcCall("new", <<>>, <<>>, <<>>, <<>>, <<>>)

RpcNext ==
    \/ \E request \in Requests : HandleRequest(request)
    \/ \E body \in Bodies : HandleRequestStr(body)
    \/ \E method \in {"custom", "getblock"}, handler \in {"custom_ok", "custom_err"} :
          RegisterHandler(method, handler)
    \/ \E counts \in {<<0, 0, 0>>, <<1, 2, 1>>} :
          UpdateState(counts[1], counts[2], counts[3])

----------------------------------------------------------------------------
\* ChainStore (chain/mod.rs).

\* The key prefixes (lines 14-19), as their ASCII bytes.
BLOCK_PREFIX == <<98, 108, 107, 58>>
BLOCK_HASH_KEY == <<98, 104, 97, 115, 104, 58>>
FORGE_PREFIX == <<102, 111, 114, 103, 101, 58>>
META_PREFIX == <<109, 101, 116, 97, 58>>
HEIGHT_KEY == <<109, 101, 116, 97, 58, 104, 101, 105, 103, 104, 116>>
BEST_BLOCK_KEY ==
    <<109, 101, 116, 97, 58, 98, 101, 115, 116, 95, 98, 108, 111, 99, 107>>

\* str::as_bytes, for the metadata keys a caller uses.
as_bytes(key) ==
    IF key = "height" THEN <<104, 101, 105, 103, 104, 116>>
    ELSE IF key = "best_block" THEN <<98, 101, 115, 116, 95, 98, 108, 111, 99, 107>>
    ELSE <<120>>

\* u64::to_le_bytes: the low byte first, eight bytes.
RECURSIVE LeBytes(_, _)
LeBytes(n, len) ==
    IF len = 0 THEN <<>> ELSE <<n % 256>> \o LeBytes(n \div 256, len - 1)
to_le_bytes(n) == LeBytes(n, 8)

\* u64::from_le_bytes.
RECURSIVE from_le_bytes(_)
from_le_bytes(bytes) ==
    IF bytes = <<>> THEN 0 ELSE Head(bytes) + 256 * from_le_bytes(Tail(bytes))

block_key(h) == BLOCK_PREFIX \o to_le_bytes(h)
block_hash_key(hash) == BLOCK_HASH_KEY \o hash
forge_key(proof_hash) == FORGE_PREFIX \o proof_hash

\* Result<T>: the value is a sequence, <<>> for None or ().
StoreOk(value) == [ok |-> TRUE, value |-> value, message |-> ""]
StoreErr(message) == [ok |-> FALSE, value |-> <<>>, message |-> message]

\* DB::get, DB::put and DB::delete on a store: a function from keys to values.
DbGet(store, key) == IF key \in DOMAIN store THEN <<store[key]>> ELSE <<>>
DbPut(store, key, value) ==
    [k \in DOMAIN store \cup {key} |-> IF k = key THEN value ELSE store[k]]
DbDelete(store, key) == [k \in DOMAIN store \ {key} |-> store[k]]

\* The reads (each is a function of the store's content).
get_block(store, h) == StoreOk(DbGet(store, block_key(h)))

get_block_height_by_hash(store, block_hash) ==
    LET found == DbGet(store, block_hash_key(block_hash))
    IN  IF found = <<>> THEN StoreOk(<<>>)
        ELSE IF Len(found[1]) # 8 THEN StoreErr("Invalid h bytes")
        ELSE StoreOk(<<from_le_bytes(found[1])>>)

get_forge(store, proof_hash) == StoreOk(DbGet(store, forge_key(proof_hash)))

forge_exists(store, proof_hash) ==
    StoreOk(<<DbGet(store, forge_key(proof_hash)) # <<>>>>)

\* ChainStore::get_height (lines 95-104).
get_chain_height(store) ==
    LET found == DbGet(store, HEIGHT_KEY)
    IN  IF found = <<>> THEN StoreOk(<<0>>)
        ELSE IF Len(found[1]) # 8 THEN StoreErr("Invalid h bytes")
        ELSE StoreOk(<<from_le_bytes(found[1])>>)

\* A block hash is [u8; 32]; the digests of this model have two bytes.
get_best_block(store) ==
    LET found == DbGet(store, BEST_BLOCK_KEY)
    IN  IF found = <<>> THEN StoreOk(<<>>)
        ELSE IF Len(found[1]) # 2 THEN StoreErr("Invalid block hash")
        ELSE StoreOk(found)

get_meta(store, key) == StoreOk(DbGet(store, META_PREFIX \o as_bytes(key)))

StartsWith(key, prefix) ==
    Len(key) >= Len(prefix) /\ SubSeq(key, 1, Len(prefix)) = prefix

\* The order of a RocksDB iterator going forward: bytewise on the keys.
RECURSIVE Ascending(_)
Ascending(keys) ==
    IF keys = {} THEN <<>>
    ELSE LET first == CHOOSE k \in keys : \A other \in keys \ {k} : BytesLess(k, other)
         IN  <<first>> \o Ascending(keys \ {first})

\* iter_blocks (lines 138-153), collected: the (height, value) pairs of the
\* keys under BLOCK_PREFIX, in the iterator's order.
iter_blocks(store) ==
    LET keys == Ascending({k \in DOMAIN store : StartsWith(k, BLOCK_PREFIX)})
        with_height == SelectSeq(keys, LAMBDA k : Len(k) - Len(BLOCK_PREFIX) = 8)
    IN  [i \in 1..Len(with_height) |->
            <<from_le_bytes(SubSeq(with_height[i], Len(BLOCK_PREFIX) + 1,
                                   Len(with_height[i]))),
              store[with_height[i]]>>]

count_blocks(store) == Len(iter_blocks(store))

\* The arguments a caller passes.
StoreHeights == {0, 1, 256}
BlockData == {<<1>>, <<2>>}
StoreHashes == {<<0, 1>>}
BestHashes == {<<0, 1>>, <<1, 0>>}
MetaKeys == {"height", "x"}
MetaPuts == {<<"height", <<7, 7, 7>>>>, <<"height", to_le_bytes(1)>>, <<"x", <<7, 7, 7>>>>}

\* What storeLast records of a call.
StoreCall(op, arg, result) == [op |-> op, arg |-> arg, result |-> result]

\* A call returns: what storeLast records of it; no call touches anything
\* outside the store.
Returned(op, arg, result) ==
    /\ storeLast' = StoreCall(op, arg, result)
    /\ UNCHANGED <<rpcVars, cryptoVars, engineVars, poolVars, now>>

\* The writes: each changes the store, and written keeps what has last been
\* put under each key of the five namespaces of lines 36-122.
PutBlock(h, block_data) ==
    /\ db' = DbPut(db, block_key(h), block_data)
    /\ written' = [written EXCEPT !.block[h] = <<block_data>>]
    /\ Returned("put_block", <<h, block_data>>, StoreOk(<<>>))

\* delete_block (lines 161-165): the height is as if never written.
DeleteBlock(h) ==
    /\ db' = DbDelete(db, block_key(h))
    /\ written' = [written EXCEPT !.block[h] = <<>>]
    /\ Returned("delete_block", <<h>>, StoreOk(<<>>))

PutBlockHash(block_hash, h) ==
    /\ db' = DbPut(db, block_hash_key(block_hash), to_le_bytes(h))
    /\ written' = [written EXCEPT !.block_hash[block_hash] = <<h>>]
    /\ Returned("put_block_hash", <<block_hash, h>>, StoreOk(<<>>))

PutForge(proof_hash, forge_data) ==
    /\ db' = DbPut(db, forge_key(proof_hash), forge_data)
    /\ written' = [written EXCEPT !.forge[proof_hash] = <<forge_data>>]
    /\ Returned("put_forge", <<proof_hash, forge_data>>, StoreOk(<<>>))

SetHeight(h) ==
    /\ db' = DbPut(db, HEIGHT_KEY, to_le_bytes(h))
    /\ written' = [written EXCEPT !.height = <<h>>]
    /\ Returned("set_height", <<h>>, StoreOk(<<>>))

SetBestBlock(block_hash) ==
    /\ db' = DbPut(db, BEST_BLOCK_KEY, block_hash)
    /\ written' = [written EXCEPT !.best_block = <<block_hash>>]
    /\ Returned("set_best_block", <<block_hash>>, StoreOk(<<>>))

PutMeta(key, value) ==
    /\ db' = DbPut(db, META_PREFIX \o as_bytes(key), value)
    /\ Returned("put_meta", <<key, value>>, StoreOk(<<>>))
    /\ UNCHANGED written

\* The reads.
GetBlock(h) ==
    /\ Returned("get_block", <<h>>, get_block(db, h))
    /\ UNCHANGED <<db, written>>

GetBlockHeightByHash(block_hash) ==
    /\ Returned("get_block_height_by_hash", <<block_hash>>,
                get_block_height_by_hash(db, block_hash))
    /\ UNCHANGED <<db, written>>

GetStoredForge(proof_hash) ==
    /\ Returned("get_forge", <<proof_hash>>, get_forge(db, proof_hash))
    /\ UNCHANGED <<db, written>>

ForgeExists(proof_hash) ==
    /\ Returned("forge_exists", <<proof_hash>>, forge_exists(db, proof_hash))
    /\ UNCHANGED <<db, written>>

GetChainHeight ==
    /\ Returned("get_height", <<>>, get_chain_height(db))
    /\ UNCHANGED <<db, written>>

GetBestBlock ==
    /\ Returned("get_best_block", <<>>, get_best_block(db))
    /\ UNCHANGED <<db, written>>

GetMeta(key) ==
    /\ Returned("get_meta", <<key>>, get_meta(db, key))
    /\ UNCHANGED <<db, written>>

IterBlocks ==
    /\ Returned("iter_blocks", <<>>, StoreOk(iter_blocks(db)))
    /\ UNCHANGED <<db, written>>

CountBlocks ==
    /\ Returned("count_blocks", <<>>, StoreOk(<<count_blocks(db)>>))
    /\ UNCHANGED <<db, written>>

\* ChainStore::new on a path without a database (lines 23-33).
StoreInit ==
    /\ db = <<>>
    /\ written = [block |-> [h \in StoreHeights |-> <<>>],
                  block_hash |-> [x \in StoreHashes |-> <<>>],
                  forge |-> [p \in StoreHashes |-> <<>>],
                  height |-> <<>>,
                  best_block |-> <<>>]
    /\ storeLast = StoreCall("new", <<>>, StoreOk(<<>>))

StoreWrites ==
    \/ \E h \in StoreHeights, block_data \in BlockData : PutBlock(h, block_data)
    \/ \E h \in StoreHeights : DeleteBlock(h)
    \/ \E block_hash \in StoreHashes, h \in {1, 256} : PutBlockHash(block_hash, h)
    \/ \E proof_hash \in StoreHashes, forge_data \in BlockData :
          PutForge(proof_hash, forge_data)
    \/ \E h \in {0, 1} : SetHeight(h)
    \/ \E block_hash \in BestHashes : SetBestBlock(block_hash)

StoreReads ==
    \/ \E h \in StoreHeights : GetBlock(h)
    \/ \E block_hash \in StoreHashes : GetBlockHeightByHash(block_hash)
    \/ \E proof_hash \in StoreHashes : GetStoredForge(proof_hash)
    \/ \E proof_hash \in StoreHashes : ForgeExists(proof_hash)
    \/ GetChainHeight
    \/ GetBestBlock
    \/ \E key \in MetaKeys : GetMeta(key)
    \/ IterBlocks
    \/ CountBlocks

StoreNext ==
    \/ StoreWrites
    \/ StoreReads
    \/ \E put \in MetaPuts : PutMeta(put[1], put[2])

----------------------------------------------------------------------------
\* The functions of crypto/mod.rs.

\* A u64 and the exact value of an expression over u64s: the digits in base
\* 10^4, lowest first, without leading zeros (<<>> is 0).
RECURSIVE Carry(_, _)
Carry(digits, c) ==
    IF digits = <<>>
    THEN IF c = 0 THEN <<>> ELSE <<c % 10000>> \o Carry(<<>>, c \div 10000)
    ELSE <<(Head(digits) + c) % 10000>>
         \o Carry(Tail(digits), (Head(digits) + c) \div 10000)

RECURSIVE Trim(_)
Trim(digits) ==
    IF digits # <<>> /\ digits[Len(digits)] = 0
    THEN Trim(SubSeq(digits, 1, Len(digits) - 1))
    ELSE digits

Wide(digits) == Trim(Carry(digits, 0))

Digit(x, i) == IF i <= Len(x) THEN x[i] ELSE 0

WideAdd(x, y) ==
    Wide([i \in 1..(IF Len(x) < Len(y) THEN Len(y) ELSE Len(x)) |->
             Digit(x, i) + Digit(y, i)])

\* x * y, one digit of y at a time.
RECURSIVE WideMul(_, _)
WideMul(x, y) ==
    IF y = <<>> THEN <<>>
    ELSE WideAdd(Wide([i \in 1..Len(x) |-> x[i] * Head(y)]),
                 Wide(<<0>> \o WideMul(x, Tail(y))))

RECURSIVE WideLess(_, _)
WideLess(x, y) ==
    IF Len(x) # Len(y) THEN Len(x) < Len(y)
    ELSE IF x = <<>> THEN FALSE
    ELSE IF x[Len(x)] # y[Len(y)] THEN x[Len(x)] < y[Len(y)]
    ELSE WideLess(Trim(SubSeq(x, 1, Len(x) - 1)), Trim(SubSeq(y, 1, Len(y) - 1)))

\* x - y for y <= x.
RECURSIVE Borrow(_, _, _)
Borrow(x, y, b) ==
    IF x = <<>> THEN <<>>
    ELSE LET d == Head(x) - (IF y = <<>> THEN 0 ELSE Head(y)) - b
         IN  <<(d + 10000) % 10000>>
             \o Borrow(Tail(x), IF y = <<>> THEN <<>> ELSE Tail(y),
                       IF d < 0 THEN 1 ELSE 0)
WideSub(x, y) == Trim(Borrow(x, y, 0))

\* 2^64 = 18446744073709551616, and u64::MAX.
U64_MODULUS == <<1616, 955, 737, 6744, 1844>>
U64_MAX == <<1615, 955, 737, 6744, 1844>>

Overflows(x) == ~WideLess(x, U64_MODULUS)

\* The value a wrapping operation keeps: x mod 2^64.
WrapU64(x) ==
    LET k == CHOOSE k \in 0..2000 :
                 /\ ~WideLess(x, WideMul(U64_MODULUS, Wide(<<k>>)))
                 /\ WideLess(x, WideMul(U64_MODULUS, Wide(<<k + 1>>)))
    IN  WideSub(x, WideMul(U64_MODULUS, Wide(<<k>>)))

\* The constants of calculate_forge_fee (lines 217-220).
BASE_FEE == <<0, 0, 1>>
INCREMENT == <<0, 1000>>
MAX_FEE == <<0, 0, 21>>

\* forges_completed / INCREMENT_INTERVAL: 10_000 is the base of the digits, so
\* the quotient is the digits above the lowest.
DivInterval(x) == IF x = <<>> THEN <<>> ELSE Tail(x)

CryptoOk(value) == [ok |-> TRUE, value |-> value, message |-> ""]
CryptoErr(message) == [ok |-> FALSE, value |-> <<>>, message |-> message]

\* calculate_forge_fee (lines 216-226). `*` and `+` on u64 panic on overflow
\* in a build with overflow checks and wrap in one without.
calculate_forge_fee(forges_completed, checks) ==
    LET increments == DivInterval(forges_completed)
        product == WideMul(increments, INCREMENT)
        sum == WideAdd(BASE_FEE, WrapU64(product))
        fee == WrapU64(sum)
    IN  IF checks /\ Overflows(product)
        THEN CryptoErr("attempt to multiply with overflow")
        ELSE IF checks /\ Overflows(sum)
        THEN CryptoErr("attempt to add with overflow")
        ELSE CryptoOk(IF WideLess(MAX_FEE, fee) THEN MAX_FEE ELSE fee)

\* The values of forges_completed a caller passes: around the first steps of
\* the schedule, around the cap, and the largest of u64.
FeeInputs ==
    {<<>>, <<9999>>, <<0, 1>>, <<9999, 1>>, <<0, 10>>, <<0, 100>>,
     <<9999, 199>>, <<0, 200>>, <<0, 201>>,
     <<0, 7361, 7440, 8446, 1>>, U64_MAX}

CryptoCall(op, arg, result) == [op |-> op, arg |-> arg, result |-> result]

CalculateForgeFee(forges_completed) ==
    /\ tetra = <<>>
    /\ cryptoLast' = CryptoCall("calculate_forge_fee", forges_completed,
                                calculate_forge_fee(forges_completed, overflow_checks))
    /\ UNCHANGED <<tetra, runs, rpcVars, storeVars, engineVars, poolVars, now>>

\* str::as_bytes for the words a caller passes: ASCII.
WordBytes(word) ==
    CASE word = "sword" -> <<115, 119, 111, 114, 100>>
      [] word = "legend" -> <<108, 101, 103, 101, 110, 100>>
      [] word = "pull" -> <<112, 117, 108, 108>>
      [] word = "magic" -> <<109, 97, 103, 105, 99>>
      [] word = "kingdom" -> <<107, 105, 110, 103, 100, 111, 109>>
      [] word = "artist" -> <<97, 114, 116, 105, 115, 116>>
      [] word = "stone" -> <<115, 116, 111, 110, 101>>
      [] word = "destroy" -> <<100, 101, 115, 116, 114, 111, 121>>
      [] word = "forget" -> <<102, 111, 114, 103, 101, 116>>
      [] word = "fire" -> <<102, 105, 114, 101>>
      [] word = "steel" -> <<115, 116, 101, 101, 108>>
      [] word = "honey" -> <<104, 111, 110, 101, 121>>
      [] word = "question" -> <<113, 117, 101, 115, 116, 105, 111, 110>>
      [] OTHER -> <<>>

\* CANONICAL_PROPHECY of crypto/mod.rs (lines 19-22): thirteen words.
CANONICAL_WORDS ==
    <<"sword", "legend", "pull", "magic", "kingdom", "artist", "stone", "destroy",
      "forget", "fire", "steel", "honey", "question">>

\* prophecy_words.join("").as_bytes().
RECURSIVE Join(_)
Join(words) ==
    IF words = <<>> THEN <<>> ELSE WordBytes(Head(words)) \o Join(Tail(words))

RECURSIVE ByteSum(_)
ByteSum(bytes) == IF bytes = <<>> THEN 0 ELSE Head(bytes) + ByteSum(Tail(bytes))

\* A digest of sha2 or pbkdf2: out_len bytes fixed by the bytes hashed (the
\* crates are not part of src/; a digest here is a simple mix of its input).
Digest(bytes, out_len) ==
    [i \in 1..out_len |-> (ByteSum(bytes) * 31 + Len(bytes) * 7 + i * i * 13) % 256]

Sha512(bytes) == Digest(bytes, 64)

\* A binding that refuses only more than thirteen words.
ProphecyBindingAtMost13(prophecy_words) ==
    IF Len(prophecy_words) > 13
    THEN CryptoErr("Prophecy must contain exactly 13 words")
    ELSE CryptoOk(Sha512(Join(prophecy_words)))

\* prophecy_binding (lines 89-98).
prophecy_binding(prophecy_words) ==
    IF Len(prophecy_words) # 13
    THEN CryptoErr("Prophecy must contain exactly 13 words")
    ELSE CryptoOk(Sha512(Join(prophecy_words)))

\* The word lists a caller passes: the canonical one, lists one word short
\* and one word long, no words, and thirteen words that are not canonical.
WordLists ==
    {CANONICAL_WORDS,
     SubSeq(CANONICAL_WORDS, 1, 12),
     CANONICAL_WORDS \o <<"sword">>,
     <<>>,
     [i \in 1..13 |-> "sword"],
     [i \in 1..13 |-> ""]}

ProphecyBinding(prophecy_words) ==
    /\ tetra = <<>>
    /\ cryptoLast' = CryptoCall("prophecy_binding", prophecy_words,
                                prophecy_binding(prophecy_words))
    /\ UNCHANGED <<tetra, runs, rpcVars, storeVars, engineVars, poolVars, now>>

\* ---- Tetra-POW (lines 40-104) ----
\* A u64 lane is four 16-bit limbs, lowest first.

TETRA_POW_ROUNDS == 128

Limb(x, i) == IF i >= 1 /\ i <= 4 THEN x[i] ELSE 0

RECURSIVE XorLimb(_, _, _)
XorLimb(a, b, n) ==
    IF n = 0 THEN 0 ELSE ((a + b) % 2) + 2 * XorLimb(a \div 2, b \div 2, n - 1)

\* x ^ y
Xor(x, y) ==
    <<XorLimb(x[1], y[1], 16), XorLimb(x[2], y[2], 16),
      XorLimb(x[3], y[3], 16), XorLimb(x[4], y[4], 16)>>

ShlLimb(x, j, k) ==
    ((Limb(x, j - (k \div 16)) * 2^(k % 16)) % 65536)
        + (Limb(x, j - (k \div 16) - 1) \div 2^(16 - (k % 16)))

\* x << k on u64: the bits shifted past bit 63 are dropped.
Shl(x, k) == <<ShlLimb(x, 1, k), ShlLimb(x, 2, k), ShlLimb(x, 3, k), ShlLimb(x, 4, k)>>

ShrLimb(x, j, k) ==
    (Limb(x, j + (k \div 16)) \div 2^(k % 16))
        + ((Limb(x, j + (k \div 16) + 1) % 2^(k % 16)) * 2^(16 - (k % 16)))

\* x >> k on u64.
Shr(x, k) == <<ShrLimb(x, 1, k), ShrLimb(x, 2, k), ShrLimb(x, 3, k), ShrLimb(x, 4, k)>>

CarryInto(x, y, j) ==
    IF j = 1 THEN 0
    ELSE IF j = 2 THEN (x[1] + y[1]) \div 65536
    ELSE IF j = 3 THEN (x[2] + y[2] + (x[1] + y[1]) \div 65536) \div 65536
    ELSE (x[3] + y[3] + (x[2] + y[2] + (x[1] + y[1]) \div 65536) \div 65536) \div 65536

\* u64::wrapping_add: the sum modulo 2^64.
wrapping_add(x, y) ==
    <<(x[1] + y[1]) % 65536,
      (x[2] + y[2] + CarryInto(x, y, 2)) % 65536,
      (x[3] + y[3] + CarryInto(x, y, 3)) % 65536,
      (x[4] + y[4] + CarryInto(x, y, 4)) % 65536>>

\* u64::from_le_bytes of the eight bytes bytes[offset+1 .. offset+8].
LaneFromLeBytes(bytes, offset) ==
    <<bytes[offset + 1] + 256 * bytes[offset + 2],
      bytes[offset + 3] + 256 * bytes[offset + 4],
      bytes[offset + 5] + 256 * bytes[offset + 6],
      bytes[offset + 7] + 256 * bytes[offset + 8]>>

\* u64::to_le_bytes.
LaneToLeBytes(x) ==
    <<x[1] % 256, x[1] \div 256, x[2] % 256, x[2] \div 256,
      x[3] % 256, x[3] \div 256, x[4] % 256, x[4] \div 256>>

ZeroLane == <<0, 0, 0, 0>>

\* TetraPoWState::new (lines 48-57).
TetraPoWStateNew(seed) ==
    IF Len(seed) >= 32
    THEN <<LaneFromLeBytes(seed, 0), LaneFromLeBytes(seed, 8),
           LaneFromLeBytes(seed, 16), LaneFromLeBytes(seed, 24)>>
    ELSE <<ZeroLane, ZeroLane, ZeroLane, ZeroLane>>

\* The round constants of lines 68-71.
RoundConstants ==
    <<<<\H7C15, \H7F4A, \H79B9, \H9E37>>,
      <<\H08D3, \H85A3, \H6A88, \H243F>>,
      <<\H7344, \H0370, \H8A2E, \H1319>>,
      <<\H31D0, \H299F, \H3822, \HA409>>>>

\* Lines 62-65, one statement each: every statement reads the lanes as the
\* statements before it left them.
Mix0(state) == [state EXCEPT ![1] = Xor(@, Xor(Shl(state[2], 13), Shr(state[4], 7)))]
Mix1(state) == [state EXCEPT ![2] = Xor(@, Xor(Shl(state[3], 17), Shr(state[1], 5)))]
Mix2(state) == [state EXCEPT ![3] = Xor(@, Xor(Shl(state[4], 23), Shr(state[2], 11)))]
Mix3(state) == [state EXCEPT ![4] = Xor(@, Xor(Shl(state[1], 29), Shr(state[3], 3)))]

\* Lines 68-71.
AddEntropy(state) ==
    <<wrapping_add(state[1], RoundConstants[1]), wrapping_add(state[2], RoundConstants[2]),
      wrapping_add(state[3], RoundConstants[3]), wrapping_add(state[4], RoundConstants[4])>>

\* A round whose four statements all read the lanes as the round found them.
RoundFromOldLanes(state) ==
    AddEntropy(<<Mix0(state)[1], Mix1(state)[2], Mix2(state)[3], Mix3(state)[4]>>)

\* TetraPoWState::round (lines 60-72).
round(state) == AddEntropy(Mix3(Mix2(Mix1(Mix0(state)))))

\* The tail of compute (lines 80-84): the lanes in order, each little-endian.
LanesToBytes(state) ==
    LaneToLeBytes(state[1]) \o LaneToLeBytes(state[2])
        \o LaneToLeBytes(state[3]) \o LaneToLeBytes(state[4])

\* ---- Stages 3 to 5 and the pipeline (lines 106-212) ----

\* b"Excalibur-EXS-Forge" (line 108).
DEFAULT_SALT ==
    <<69, 120, 99, 97, 108, 105, 98, 117, 114, 45, 69, 88, 83, 45, 70, 111, 114, 103, 101>>

\* Option<&[u8]>: None is <<>>, Some(bytes) is <<bytes>>.
UnwrapOr(option, default) == IF option = <<>> THEN default ELSE option[1]

\* A tempering whose default salt is the number of runs made so far.
TemperingWithRunCounter(tetra_hash, salt) ==
    Digest(tetra_hash \o UnwrapOr(salt, <<Len(runs)>>), 64)

\* pbkdf2_tempering (lines 107-114): 64 bytes fixed by the password and the salt.
pbkdf2_tempering(tetra_hash, salt) ==
    Digest(tetra_hash \o UnwrapOr(salt, DEFAULT_SALT), 64)

\* The value of a lane as a wide number: 65536 is <<5536, 6>>.
WideFromLane(x) ==
    WideAdd(Wide(<<x[1]>>), WideMul(<<5536, 6>>,
        WideAdd(Wide(<<x[2]>>), WideMul(<<5536, 6>>,
            WideAdd(Wide(<<x[3]>>), WideMul(<<5536, 6>>, Wide(<<x[4]>>)))))))

DivRemStep(head, top, d) ==
    [q |-> <<(10000 * top.r + head) \div d>> \o top.q, r |-> (10000 * top.r + head) % d]

\* Quotient and remainder of a wide number by a small divisor.
RECURSIVE WideDivRem(_, _)
WideDivRem(x, d) ==
    IF x = <<>> THEN [q |-> <<>>, r |-> 0]
    ELSE DivRemStep(Head(x), WideDivRem(Tail(x), d), d)

\* The lane of a wide number below 2^64.
RECURSIVE WideToLimbs(_, _)
WideToLimbs(x, n) ==
    IF n = 0 THEN <<>>
    ELSE <<WideDivRem(x, 65536).r>> \o WideToLimbs(Trim(WideDivRem(x, 65536).q), n - 1)

\* The first four ratios of lines 119-128 (the loop of line 133 uses no
\* other), in units of 10^-16.
Ratios ==
    <<<<0, 0, 0, 0, 1>>,
      <<8950, 8749, 3398, 6180, 1>>,
      <<950, 2373, 1356, 4142, 1>>,
      <<8770, 7568, 5080, 7320, 1>>>>

\* (value as f64 * ratio) as u64 (line 144): the product, cut to an integer
\* and saturated at u64::MAX by the cast.  The rounding of f64 to 53 bits is
\* left out: the product here is the exact one.
Transformed(value, ratio) ==
    LET product == WideMul(value, ratio)
        whole == IF Len(product) <= 4 THEN <<>> ELSE SubSeq(product, 5, Len(product))
    IN  IF Overflows(whole) THEN U64_MAX ELSE whole

\* One pass of the loop of lines 133-157: eight bytes of the seed.
ZetaChunk(tempered_key, i) ==
    LET chunk == SubSeq(tempered_key, i * 8 + 1, i * 8 + 8)
    IN  SubSeq(Digest(chunk \o LaneToLeBytes(WideToLimbs(
                          Transformed(WideFromLane(LaneFromLeBytes(chunk, 0)), Ratios[i + 1]),
                          4)), 32), 1, 8)

RECURSIVE ZetaFrom(_, _)
ZetaFrom(tempered_key, i) ==
    IF i = 4 THEN <<>>
    ELSE IF i * 8 + 8 > Len(tempered_key) THEN [k \in 1..(32 - i * 8) |-> 0]
    ELSE ZetaChunk(tempered_key, i) \o ZetaFrom(tempered_key, i + 1)

\* final_zetahash_pythagoras (lines 117-160): always 32 bytes.
final_zetahash_pythagoras(tempered_key) == ZetaFrom(tempered_key, 0)

\* The order of the secp256k1 group, big-endian.
CURVE_ORDER ==
    <<255, 255, 255, 255, 255, 255, 255, 255, 255, 255, 255, 255, 255, 255, 255, 254,
      \HBA, \HAE, \HDC, \HE6, \HAF, \H48, \HA0, \H3B,
      \HBF, \HD2, \H5E, \H8C, \HD0, \H36, \H41, \H41>>

\* SecretKey::from_slice accepts 32 bytes that are not zero and are below the
\* group order.
ValidSecretKey(bytes) ==
    /\ Len(bytes) = 32
    /\ \E i \in 1..32 : bytes[i] # 0
    /\ BytesLess(bytes, CURVE_ORDER)

Networks == {"bitcoin", "testnet"}

\* derive_taproot_address of crypto/mod.rs (lines 164-182): a P2WPKH address
\* is the network's prefix and the 20-byte hash of the public key.
DeriveTaprootAddress(final_seed, network) ==
    IF ~ValidSecretKey(SubSeq(final_seed, 1, 32))
    THEN CryptoErr("Failed to create secret key")
    ELSE CryptoOk([hrp |-> IF network = "bitcoin" THEN "bc" ELSE "tb",
                   program |-> Digest(final_seed, 20)])

ProofOfForgeResult(prophecy_hash, tetra_hash, tempered_key, final_seed, taproot_address) ==
    [prophecy_hash |-> prophecy_hash, tetra_hash |-> tetra_hash,
     tempered_key |-> tempered_key, final_seed |-> final_seed,
     taproot_address |-> taproot_address]

\* Lines 205-211, after the ? of line 203.
ForgeResult(prophecy_hash, tetra_hash, tempered_key, final_seed, address) ==
    IF ~address.ok THEN address
    ELSE CryptoOk(ProofOfForgeResult(prophecy_hash, tetra_hash, tempered_key,
                                     final_seed, address.value))

\* Lines 200-203.
ForgeSeed(prophecy_hash, tetra_hash, tempered_key, final_seed, network) ==
    ForgeResult(prophecy_hash, tetra_hash, tempered_key, final_seed,
                DeriveTaprootAddress(final_seed, network))

\* proof_of_forge from line 197 on, given the hashes of stages 1 and 2.
ForgeTail(prophecy_hash, tetra_hash, salt, network) ==
    ForgeSeed(prophecy_hash, tetra_hash, pbkdf2_tempering(tetra_hash, salt),
              final_zetahash_pythagoras(pbkdf2_tempering(tetra_hash, salt)), network)

\* A call that has not returned.
Pending == CryptoErr("running")

\* The frame of a tetra_pow_128_rounds call: the state and the rounds done;
\* pipeline holds the arguments of the proof_of_forge that made the call.
TetraFrame(seed, pipeline) ==
    [seed |-> seed, state |-> TetraPoWStateNew(seed), rounds |-> 0, pipeline |-> pipeline]

ForgeArgs(prophecy_words, salt, network) ==
    [prophecy_words |-> prophecy_words, salt |-> salt, network |-> network]

ForgeRun(args, result) == [args |-> args, result |-> result]

\* The seeds a caller passes to tetra_pow_128_rounds: 64 zero bytes, 33
\* bytes with the top bit of every lane set, and a seed shorter than 32 bytes.
TetraSeeds ==
    {[i \in 1..64 |-> 0],
     [i \in 1..33 |-> IF i % 8 = 0 THEN 128 + i ELSE 255 - i],
     [i \in 1..31 |-> 255]}

\* The calls of proof_of_forge.
ForgeCalls ==
    {ForgeArgs(CANONICAL_WORDS, <<>>, "bitcoin"),
     ForgeArgs(CANONICAL_WORDS, <<(<<1, 2, 3>>)>>, "testnet"),
     ForgeArgs(SubSeq(CANONICAL_WORDS, 1, 12), <<>>, "bitcoin")}

\* tetra_pow_128_rounds up to the loop of compute (lines 101-103, 75-76).
TetraPow128Rounds(prophecy_hash) ==
    /\ tetra = <<>>
    /\ tetra' = <<TetraFrame(prophecy_hash, <<>>)>>
    /\ cryptoLast' = CryptoCall("tetra_pow_128_rounds", prophecy_hash, Pending)
    /\ UNCHANGED <<runs, rpcVars, storeVars, engineVars, poolVars, now>>

\* One pass of the loop of compute (lines 76-78).
TetraRound ==
    /\ tetra # <<>>
    /\ tetra[1].rounds < TETRA_POW_ROUNDS
    /\ tetra' = <<[tetra[1] EXCEPT !.state = round(@), !.rounds = @ + 1]>>
    /\ UNCHANGED <<cryptoLast, runs, rpcVars, storeVars, engineVars, poolVars, now>>

\* The end of compute (lines 80-84) in a direct call.
TetraReturn ==
    /\ tetra # <<>>
    /\ tetra[1].pipeline = <<>>
    /\ tetra[1].rounds = TETRA_POW_ROUNDS
    /\ cryptoLast' = CryptoCall("tetra_pow_128_rounds", tetra[1].seed,
                                CryptoOk(LanesToBytes(tetra[1].state)))
    /\ tetra' = <<>>
    /\ UNCHANGED <<runs, rpcVars, storeVars, engineVars, poolVars, now>>

\* proof_of_forge up to the loop of compute (lines 185-194): the ? of line
\* 191 returns the error of prophecy_binding.
ProofOfForge(args) ==
    /\ tetra = <<>>
    /\ Len(runs) < MaxRuns
    /\ IF ~prophecy_binding(args.prophecy_words).ok
       THEN /\ cryptoLast' = CryptoCall("proof_of_forge", args,
                                        prophecy_binding(args.prophecy_words))
            /\ runs' = Append(runs, ForgeRun(args, prophecy_binding(args.prophecy_words)))
            /\ tetra' = tetra
       ELSE /\ cryptoLast' = CryptoCall("proof_of_forge", args, Pending)
            /\ tetra' = <<TetraFrame(prophecy_binding(args.prophecy_words).value, <<args>>)>>
            /\ runs' = runs
    /\ UNCHANGED <<rpcVars, storeVars, engineVars, poolVars, now>>

\* proof_of_forge from the end of compute on (lines 80-84, 196-211).
ProofOfForgeReturn ==
    /\ tetra # <<>>
    /\ tetra[1].pipeline # <<>>
    /\ tetra[1].rounds = TETRA_POW_ROUNDS
    /\ cryptoLast' = CryptoCall("proof_of_forge", tetra[1].pipeline[1],
                                ForgeTail(tetra[1].seed, LanesToBytes(tetra[1].state),
                                          tetra[1].pipeline[1].salt,
                                          tetra[1].pipeline[1].network))
    /\ runs' = Append(runs, ForgeRun(tetra[1].pipeline[1], cryptoLast'.result))
    /\ tetra' = <<>>
    /\ UNCHANGED <<rpcVars, storeVars, engineVars, poolVars, now>>

CryptoInit ==
    /\ cryptoLast = CryptoCall("none", <<>>, CryptoOk(<<>>))
    /\ tetra = <<>>
    /\ runs = <<>>

CryptoNext ==
    \/ \E forges_completed \in FeeInputs : CalculateForgeFee(forges_completed)
    \/ \E prophecy_words \in WordLists : ProphecyBinding(prophecy_words)
    \/ \E prophecy_hash \in TetraSeeds : TetraPow128Rounds(prophecy_hash)
    \/ TetraRound
    \/ TetraReturn
    \/ \E args \in ForgeCalls : ProofOfForge(args)
    \/ ProofOfForgeReturn

----------------------------------------------------------------------------
EngineInit ==
    /\ initial_difficulty \in InitialDifficulties
    /\ difficulty = initial_difficulty
    /\ total_forges = 0
    /\ height = 0
    /\ latest_hash = ZERO_HASH
    /\ used_prophecies = <<>>
    /\ difficultyLock = "free"
    /\ totalLock = "free"
    /\ chainLock = "free"
    /\ applyPc = [t \in Threads |-> "idle"]
    /\ applyBlk = [t \in Threads |-> <<>>]
    /\ received = <<>>
    /\ salt_from_timestamp \in BOOLEAN
    /\ applied = <<>>
    /\ last = NoCall
    /\ seen = <<>>
    /\ validating = <<>>

PoolInit ==
    /\ pending = <<>>
    /\ priority_queue = {}
    /\ pendingLock = "free"
    /\ queueLock = "free"
    /\ readers = [pending |-> {}, priority_queue |-> {}]
    /\ max_size = MaxPoolSize
    /\ min_fee = TEST_MIN_FEE
    /\ poolPc = [t \in Threads |-> Idle]
    /\ poolLast = NoCall

Init ==
    /\ EngineInit /\ PoolInit /\ overflow_checks = TRUE /\ now = 0
    /\ RpcInit /\ StoreInit /\ CryptoInit

\* The engine driven call by call.
Next ==
    \/ \E b \in Blocks(salt_from_timestamp) : ReceiveBlock(b)
    \/ \E t \in Threads, b \in Candidates : apply_block(t, b)
    \/ get_height
    \/ get_total_forges
    \/ get_difficulty
    \/ \E f \in Forges(salt_from_timestamp) : ValidateForgeCall(f)
    \/ \E b \in Candidates, p \in ParentHashes, clock \in 0..MaxNow :
          ValidateBlockCall(b, p, clock)

Spec == Init /\ [][Next]_vars

\* The engine with apply_block and validate_forge interleaved lock by lock.
ConcBlocks ==
    {[header |-> HeaderFor(fs, "none"), forges |-> fs] :
        fs \in [1..MaxForges -> BlockForges(TRUE)]}

ConcNext ==
    \/ \E b \in ConcBlocks : ReceiveBlock(b)
    \/ \E t \in Threads, b \in Candidates : ApplyBlockState(t, b)
    \/ \E t \in Threads : ApplyBlockTotal(t)
    \/ \E t \in Threads : ApplyBlockAdjust(t)
    \/ get_height
    \/ get_total_forges
    \/ get_difficulty
    \/ \E f \in Forges(salt_from_timestamp) : ValidateForgeBegin(f)
    \/ ValidateForgeEnd

SpecConc == Init /\ [][ConcNext]_vars

\* The pool alone, in either build profile.
PoolSpecInit ==
    /\ EngineInit
    /\ initial_difficulty = 0
    /\ salt_from_timestamp
    /\ PoolInit
    /\ overflow_checks \in BOOLEAN
    /\ now = 0
    /\ RpcInit
    /\ StoreInit
    /\ CryptoInit

SpecPool == PoolSpecInit /\ [][PoolNext]_vars

\* The pool used by one thread, call by call.
Caller == "t1"
SeqBlocks == PoolBlocks \cup {<<>>, <<(<<1, 1>>), (<<1, 1>>)>>}

PoolSeqNext ==
    \/ \E f \in PoolForges : add_forge(Caller, f)
    \/ \E h \in PoolHashes : remove_forge(Caller, h)
    \/ clear(Caller)
    \/ size(Caller)
    \/ \E n \in 0..(MaxPoolSize + 1) : get_forges_for_block(Caller, n)
    \/ \E b \in SeqBlocks : remove_block_forges(Caller, b)
    \/ \E timeout \in Timeouts : remove_expired(Caller, timeout)
    \/ Tick

SpecPoolSeq == PoolSpecInit /\ [][PoolSeqNext]_vars

\* The pool with every lock acquisition a step of its own.
SpecLocks == PoolSpecInit /\ [][LockNext]_vars

\* The pool with a periodic task that calls remove_expired again and again
\* while another thread adds forges and removes those of a block.  A forge is
\* added only while the bounded clock can still pass its expiry.
Ticker == "t2"
ExpiryTimeout == 0
LiveForges == {PoolForge(<<0, 0>>, 2), PoolForge(<<0, 1>>, 1)}

LiveNext ==
    \/ \E f \in LiveForges : now + ExpiryTimeout < MaxNow /\ add_forge(Caller, f)
    \/ remove_block_forges(Caller, <<(<<0, 0>>)>>)
    \/ RemoveExpiredReadClock(Ticker, ExpiryTimeout)
    \/ RemoveExpiredSection(Ticker)
    \/ Tick

\* The periodic task is scheduled again and again, each of its calls runs to
\* its end, and the clock advances.
LiveFairness ==
    /\ WF_vars(RemoveExpiredReadClock(Ticker, ExpiryTimeout))
    /\ WF_vars(RemoveExpiredSection(Ticker))
    /\ WF_vars(Tick)

SpecLive == PoolSpecInit /\ [][LiveNext]_vars /\ LiveFairness

\* The engine applying a block of DIFFICULTY_INTERVAL forges.
BigNext ==
    \/ \E b \in {BIG_BLOCK} \cup ConcBlocks : ReceiveBlock(b)
    \/ \E t \in Threads : received # <<>> /\ apply_block(t, received[1])
    \/ get_total_forges
    \/ get_difficulty

SpecBig == Init /\ [][BigNext]_vars

\* The engine validating blocks at and around max_forges_per_block.
SizeForgeLists(mixes) ==
    {[i \in 1..n |-> DerivedForge(<<0, 1>>, 1, mixes)] :
        n \in {0, 1, max_forges_per_block - 1, max_forges_per_block,
               max_forges_per_block + 1}}

SizeBlocks(mixes) ==
    {[header |-> HeaderFor(fs, fault), forges |-> fs] :
        fs \in SizeForgeLists(mixes), fault \in HeaderFaults}

SizeNext ==
    \/ \E b \in SizeBlocks(salt_from_timestamp) : ReceiveBlock(b)
    \/ \E b \in Candidates, p \in ParentHashes, clock \in 0..MaxNow :
          ValidateBlockCall(b, p, clock)
    \/ \E t \in Threads, b \in Candidates : apply_block(t, b)

SpecSize == Init /\ [][SizeNext]_vars

\* The engine validating blocks whose timestamps lie at, before and after the
\* latest clock value plus MAX_FUTURE_SKEW.
SkewBlocks(mixes) ==
    {[header |-> HeaderFor(fs, fault), forges |-> fs] :
        fs \in [1..MaxForges -> BlockForges(mixes)],
        fault \in {"none", "timestamp", "old", "merkle"}}

SkewNext ==
    \/ \E b \in SkewBlocks(salt_from_timestamp) : ReceiveBlock(b)
    \/ \E b \in Candidates, p \in ParentHashes, clock \in 0..MaxNow :
          ValidateBlockCall(b, p, clock)
    \/ \E t \in Threads, b \in Candidates : apply_block(t, b)

SpecSkew == Init /\ [][SkewNext]_vars

\* The engine with two threads that each validate a block and, when
\* validate_block accepted it, apply it: blocks that differ and share a forge.
ReplayBlocks(mixes) ==
    {[header |-> HeaderFor(fs, fault), forges |-> fs] :
        fs \in {<<DerivedForge(<<0, 1>>, 1, mixes)>>,
                <<DerivedForge(<<0, 1>>, 1, mixes), DerivedForge(<<1, 0>>, 1, mixes)>>},
        fault \in {"none", "old"}}

\* validate_block(block, parent_hash) by thread t, which goes on to apply the
\* block if the call returned Ok.
ValidateOwnBlock(t, block, parent_hash, clock) ==
    /\ applyPc[t] = "idle"
    /\ last' = Call("validate_block", validate_block(block, parent_hash, clock))
    /\ applyPc' = IF validate_block(block, parent_hash, clock) = "Ok"
                  THEN [applyPc EXCEPT ![t] = "validated"] ELSE applyPc
    /\ applyBlk' = IF validate_block(block, parent_hash, clock) = "Ok"
                   THEN [applyBlk EXCEPT ![t] = <<block>>] ELSE applyBlk
    /\ UNCHANGED <<difficulty, total_forges, height, latest_hash, used_prophecies,
                   difficultyLock, totalLock, chainLock, applied, seen>>
    /\ UNCHANGED unchangedByApply
    /\ UNCHANGED <<poolVars, now, rpcVars, storeVars, cryptoVars>>

\* The first step of apply_block on the block thread t validated; the thread
\* waits while another holds chain_state.
ApplyValidated(t) ==
    /\ applyPc[t] = "validated"
    /\ LET e == LockState(t, Engine(t), applyBlk[t][1])
       IN  /\ e.ret # "Blocked"
           /\ Store(t, IF e.ret = "Panic" THEN Unwind(t, e) ELSE e)
           /\ applied' = IF e.pc = "state_written"
                         THEN Append(applied, Record(applyBlk[t][1])) ELSE applied
           /\ seen' = IF e.pc = "state_written" THEN ReadsInFlight ELSE seen
    /\ UNCHANGED unchangedByApply
    /\ UNCHANGED <<poolVars, now, rpcVars, storeVars, cryptoVars>>

ReplayNext ==
    \/ \E t \in Threads, b \in ReplayBlocks(salt_from_timestamp), p \in ParentHashes,
          clock \in 0..MaxNow : ValidateOwnBlock(t, b, p, clock)
    \/ \E t \in Threads : ApplyValidated(t)
    \/ \E t \in Threads : ApplyBlockTotal(t)
    \/ \E t \in Threads : ApplyBlockAdjust(t)
    \/ get_height
    \/ get_total_forges
    \/ get_difficulty

SpecReplay == Init /\ [][ReplayNext]_vars

\* The server and the store next to one engine: neither reads the engine.
ServiceInit == Init /\ initial_difficulty = 1 /\ ~salt_from_timestamp

SpecRpc == ServiceInit /\ [][RpcNext]_vars

SpecStore == ServiceInit /\ [][StoreNext]_vars

\* The functions of crypto/mod.rs, in either build profile.
CryptoSpecInit ==
    /\ EngineInit /\ initial_difficulty = 1 /\ ~salt_from_timestamp
    /\ PoolInit /\ overflow_checks \in BOOLEAN /\ now = 0
    /\ RpcInit /\ StoreInit /\ CryptoInit

SpecCrypto == CryptoSpecInit /\ [][CryptoNext]_vars

----------------------------------------------------------------------------
\* Properties of the consensus engine.

\* The applies that wrote chain_state, each of a block validate_block accepted
\* in the state the apply started from.
AllApplied == DOMAIN applied
EveryAppliedAccepted == \A i \in AllApplied : applied[i].accepted_by # {}
ForgeSlots == {<<i, k>> \in AllApplied \X (1..MaxForges + 1) :
                  k <= Len(applied[i].block.forges)}
ProofHashAt(slot) == applied[slot[1]].block.forges[slot[2]].proof_hash

\* C1: when every applied block was accepted by validate_block first, no
\* proof_hash occurs twice among the forges of the applied blocks, neither in
\* two blocks nor twice inside one block.
C1_UniqueProofHashes ==
    EveryAppliedAccepted =>
        \A a, b \in ForgeSlots : a # b => ProofHashAt(a) # ProofHashAt(b)

\* C2: once a block containing forge F has been applied, validate_forge(F)
\* returns the Replay error.
C2_ReplayRejected ==
    (/\ last.op = "validate_forge"
     /\ EveryAppliedAccepted
     /\ \E a \in ForgeSlots : applied[a[1]].block.forges[a[2]] = last.forge[1])
    => last.result = "Replay"

\* C3: every block applied after validate_block accepted it has header.height
\* equal to the engine's height immediately before the apply plus 1.
C3_HeightMonotonic ==
    \A i \in AllApplied :
        applied[i].accepted_by # {} => applied[i].block.header.height = applied[i].height + 1

\* C4: every block applied after validate_block(b, p) accepted it has
\* header.prev_block_hash equal to the engine's latest_hash immediately
\* before the apply.
C4_ChainLinkage ==
    \A i \in AllApplied :
        applied[i].accepted_by # {} =>
            applied[i].block.header.prev_block_hash = applied[i].latest_hash

\* C5: a forge accepted by validate_forge has the derived key and the address
\* the pipeline recomputes from its prophecy; a mismatch in either yields an
\* error.
C5_DerivationChecked ==
    last.op = "validate_forge" =>
        LET f == last.forge[1]
            pof == proof_of_forge(f.prophecy, f.timestamp, salt_from_timestamp)
            matches == /\ pof.derived_key = f.derived_key
                       /\ pof.taproot_address = f.taproot_address
        IN  /\ last.result = "Ok" => matches
            /\ ~matches => last.result \in {"InvalidProphecy", "DerivedKeyMismatch",
                                            "AddressMismatch"}

\* C5 witness: validate_forge has accepted a forge.
C5_Witness == last.op = "validate_forge" /\ last.result = "Ok"

\* C6: after any sequence of apply_block calls the difficulty is
\* initial_difficulty + floor(total_forges / 10_000).
C6_DifficultySchedule ==
    difficulty = initial_difficulty + (total_forges \div DIFFICULTY_INTERVAL)

\* C8: a proof_hash recorded in used_prophecies stays recorded, with the same
\* height, whatever happens next.
C8_AppendOnly ==
    [][\A h \in DOMAIN used_prophecies :
          h \in DOMAIN used_prophecies' /\ used_prophecies'[h] = used_prophecies[h]]_vars

\* C8 witness: with a proof_hash recorded, a further apply_block has been called.
C8_Witness ==
    /\ used_prophecies # <<>>
    /\ last.op = "apply_block"
    /\ last.result \in {"Blocked", "Panic"}
    /\ \E t \in Threads : applyPc[t] \in {"deadlocked", "panicked"}
    /\ \E t \in Threads : applyPc[t] = "idle"

\* The apply in progress, the state it started from and the state it leaves.
Running == applied[Len(applied)]
PreValue(x) ==
    CASE x = "height" -> Running.height
      [] x = "total_forges" -> Running.total_forges
      [] x = "difficulty" -> Running.difficulty
      [] x = "used_prophecies" -> DOMAIN Running.used_prophecies
PostValue(x) ==
    LET total == Running.total_forges + Len(Running.block.forges)
    IN  CASE x = "height" -> Running.block.header.height
          [] x = "total_forges" -> total
          [] x = "difficulty" ->
                 IF total % DIFFICULTY_INTERVAL = 0 /\ total > 0
                 THEN Running.difficulty + 1 ELSE Running.difficulty
          [] x = "used_prophecies" ->
                 DOMAIN InsertProofs(Running.used_prophecies, Running.block)

\* C7: at most one apply_block is in progress at a time, and what readers read
\* while it runs is either all the state before the apply or all the state
\* after it.
C7_SerializedAtomic ==
    /\ Cardinality(Applying) <= 1
    /\ Applying # {} =>
           \/ \A x \in DOMAIN seen : seen[x] = PreValue(x)
           \/ \A x \in DOMAIN seen : seen[x] = PostValue(x)

\* C7 witness: a reader has read total_forges and difficulty while an apply is
\* between its chain_state write and its total_forges write.
C7_Witness ==
    /\ \E t \in Threads : applyPc[t] = "state_written"
    /\ {"total_forges", "difficulty"} \subseteq DOMAIN seen

\* The state the i-th apply left: the one the next apply started from, or
\* the present one.
AfterApply(i) ==
    IF i < Len(applied)
    THEN [height |-> applied[i + 1].height, latest_hash |-> applied[i + 1].latest_hash,
          used_prophecies |-> applied[i + 1].used_prophecies,
          total_forges |-> applied[i + 1].total_forges]
    ELSE [height |-> height, latest_hash |-> latest_hash,
          used_prophecies |-> used_prophecies, total_forges |-> total_forges]
BlockProofHashes(block) == {block.forges[k].proof_hash : k \in 1..Len(block.forges)}
RECURSIVE ForgesApplied(_)
ForgesApplied(n) ==
    IF n = 0 THEN 0 ELSE Len(applied[n].block.forges) + ForgesApplied(n - 1)

\* C34: after apply_block(b) has made its writes, height is b.header.height,
\* latest_hash is the hash of b's header, used_prophecies maps the proof_hash
\* of every forge of b to b.header.height and is otherwise as before, and
\* total_forges has grown by the number of forges of b; total_forges is the
\* sum of the forge counts of the applied blocks.
C34_ApplyPostState ==
    /\ \A i \in AllApplied :
           LET pre == applied[i]
               b == applied[i].block
               post == AfterApply(i)
           IN  /\ post.height = b.header.height
               /\ post.latest_hash = Sha256(b.header)
               /\ DOMAIN post.used_prophecies
                      = (DOMAIN pre.used_prophecies) \cup BlockProofHashes(b)
               /\ \A h \in DOMAIN post.used_prophecies :
                      post.used_prophecies[h] =
                          IF h \in BlockProofHashes(b) THEN b.header.height
                          ELSE pre.used_prophecies[h]
               /\ post.total_forges = pre.total_forges + Len(b.forges)
    /\ total_forges = ForgesApplied(Len(applied))

\* C34 witness: apply_block has run on a block of two forges with different
\* proof hashes and has ended.
C34_Witness ==
    /\ Len(applied) = 1
    /\ Cardinality(BlockProofHashes(applied[1].block)) = 2
    /\ last.op = "apply_block"
    /\ \A t \in Threads : applyPc[t] \notin {"state_written", "total_written"}

\* C35: a call of apply_block on an engine on which no thread is inside a
\* call returns Ok and leaves chain_state, total_forges and difficulty
\* unlocked.
C35_ApplyReturns ==
    [][((\A t \in Threads : applyPc[t] = "idle") /\ applied' # applied)
          => /\ last'.op = "apply_block"
             /\ last'.result = "Ok"
             /\ chainLock' = "free"
             /\ totalLock' = "free"
             /\ difficultyLock' = "free"]_vars

\* C36: a forge accepted by validate_forge has its proof_hash field equal to
\* the proof hash the pipeline recomputes, the value validate_forge tested for
\* difficulty and replay.
C36_ProofHashBound ==
    (last.op = "validate_forge" /\ last.result = "Ok")
        => last.forge[1].proof_hash
               = proof_of_forge(last.forge[1].prophecy, last.forge[1].timestamp,
                                salt_from_timestamp).proof_hash

SharesForge(a, b) ==
    \E i \in 1..Len(a.forges), j \in 1..Len(b.forges) : a.forges[i] = b.forges[j]

\* C37: when two threads each run validate_block and then apply_block on
\* different blocks that contain the same forge, at most one of the two blocks
\* is applied, whatever the interleaving.
C37_OneOfTwoApplied ==
    \A i, j \in AllApplied :
        (i # j /\ applied[i].block # applied[j].block)
            => ~SharesForge(applied[i].block, applied[j].block)

\* C37 witness: both threads had their blocks accepted, the blocks differ and
\* share a forge, one thread has applied its block and the other has called
\* apply_block.
C37_Witness ==
    \E t, u \in Threads :
        /\ t # u
        /\ applyPc[t] \in {"deadlocked", "panicked"}
        /\ applyPc[u] \in {"validated", "panicked"}
        /\ applyBlk[t] # <<>> /\ applyBlk[u] # <<>>
        /\ applyBlk[t] # applyBlk[u]
        /\ SharesForge(applyBlk[t][1], applyBlk[u][1])
        /\ Len(applied) = 1
        /\ applied[1].block = applyBlk[t][1]

----------------------------------------------------------------------------
\* Properties of the mempool.

\* C9: in every state between mempool steps a proof_hash is a key of pending
\* exactly when the priority index holds it exactly once, with the priority of
\* its pending entry.
C9_IndexConsistent ==
    /\ \A e \in priority_queue : e[1] \in DOMAIN pending
    /\ \A h \in DOMAIN pending :
           {e \in priority_queue : e[1] = h} = {<<h, pending[h].priority>>}

\* C9 witness: between the contains and the remove_forge of a
\* remove_block_forges another thread has removed the forge, and the pool
\* is not empty.
C9_Witness ==
    /\ pending # <<>>
    /\ \E t \in Threads :
          /\ poolPc[t].op = "remove_block_forges"
          /\ poolPc[t].checked
          /\ Head(poolPc[t].rest) \notin DOMAIN pending

\* C10: the pool never holds more than max_size forges, and an add_forge of a
\* new proof_hash to a pool of max_size forges fails with MempoolFull and
\* changes neither pending nor the priority index.
C10_Capacity ==
    /\ [](Cardinality(DOMAIN pending) <= max_size)
    /\ [][\A t \in Threads, f \in PoolForges :
             (/\ add_forge(t, f)
              /\ f.proof_hash \notin DOMAIN pending
              /\ Cardinality(DOMAIN pending) = max_size)
             => /\ poolLast'.result = "MempoolFull"
                /\ pending' = pending
                /\ priority_queue' = priority_queue]_vars

\* The priority (timestamp, fee) the pool gives a forge.
PriorityOf(forge) == ForgePriority(forge.timestamp, min_fee)
PendingForges == {pending[h].forge : h \in DOMAIN pending}

\* C11: get_forges_for_block(n) returns min(n, size()) pending forges, those
\* of highest priority (timestamp, fee), in descending priority order,
\* whatever their proof hashes.
C11_SelectionByPriority ==
    (poolLast.op = "get_forges_for_block" /\ poolLast.result = "Ok") =>
        LET got == poolLast.forge
            n == poolLast.value
            size_ == Cardinality(DOMAIN pending)
        IN  /\ Len(got) = IF n < size_ THEN n ELSE size_
            /\ \A i \in 1..Len(got) : got[i] \in PendingForges
            /\ \A i, j \in 1..Len(got) :
                   i < j => ~PriorityLess(PriorityOf(got[i]), PriorityOf(got[j]))
            /\ \A g \in PendingForges :
                   (\A i \in 1..Len(got) : got[i] # g) =>
                       \A i \in 1..Len(got) :
                           ~PriorityLess(PriorityOf(got[i]), PriorityOf(g))

\* C12: add_forge of a forge whose proof_hash is already pending fails with
\* MempoolDuplicate and changes neither pending nor the priority index.
C12_DuplicateRejected ==
    [][\A t \in Threads, f \in PoolForges :
          (add_forge(t, f) /\ f.proof_hash \in DOMAIN pending)
          => /\ poolLast'.result = "MempoolDuplicate"
             /\ pending' = pending
             /\ priority_queue' = priority_queue]_vars

Range(seq) == {seq[i] : i \in 1..Len(seq)}

C14_RemoveExpired ==
    [][\A t \in Threads :
          RemoveExpiredSection(t)
          => LET expired == {h \in DOMAIN pending :
                                poolPc[t].clock - pending[h].added_at > poolPc[t].timeout}
             IN  /\ poolLast'.result = "Ok"
                 /\ poolLast'.value = Cardinality(expired)
                 /\ DOMAIN pending' = DOMAIN pending \ expired
                 /\ \A h \in DOMAIN pending' : pending'[h] = pending[h]
                 /\ priority_queue' = {e \in priority_queue : e[1] \notin expired}]_vars

\* C15: in every pool state, for every forge whose add_forge succeeds,
\* add_forge followed by remove_forge of its proof_hash returns the forge and
\* leaves pending and the priority index as they were before the add.
C15_RoundTrip ==
    \A f \in PoolForges :
        LET added == AddForge(Pool, f, now)
            removed == RemoveForge([added EXCEPT !.ret = "none"], f.proof_hash)
        IN  added.ret = "Ok" =>
                /\ removed.ret = "Ok"
                /\ removed.forge = <<f>>
                /\ removed.pending = pending
                /\ removed.priority_queue = priority_queue

\* C15 witness: a forge was added to a pool holding another forge and has
\* been removed again.
C15_Witness ==
    /\ poolLast.op = "remove_forge"
    /\ poolLast.result = "Ok"
    /\ pending # <<>>
    /\ \E f \in PoolForges : AddForge(Pool, f, now).ret = "Ok"

----------------------------------------------------------------------------
\* Properties of block validation.

\* One level of the tree as the specification words it: adjacent pairs, an odd
\* last hash paired with itself.
RECURSIVE PairAdjacent(_)
PairAdjacent(hashes) ==
    IF hashes = <<>> THEN <<>>
    ELSE IF Len(hashes) = 1 THEN <<Sha256Pair(hashes[1], hashes[1])>>
    ELSE <<Sha256Pair(hashes[1], hashes[2])>>
         \o PairAdjacent(SubSeq(hashes, 3, Len(hashes)))

RECURSIVE MerkleOf(_)
MerkleOf(hashes) ==
    IF Len(hashes) = 1 THEN hashes[1] ELSE MerkleOf(PairAdjacent(hashes))

Leaves(forges) == [i \in 1..Len(forges) |-> Sha256(forges[i])]

\* C18: every applied block that validate_block accepts in the state the apply
\* started from has a header.merkle_root equal to the root recomputed from its
\* forges, which is the tree of adjacent pairs with an odd last hash paired
\* with itself.
C18_MerkleIntegrity ==
    \A i \in AllApplied :
        applied[i].accepted_by # {} =>
            LET b == applied[i].block
            IN  /\ b.header.merkle_root = compute_merkle_root(b.forges)
                /\ b.header.merkle_root = MerkleOf(Leaves(b.forges))

\* C18 witness: an accepted block of three forges, whose third leaf is paired
\* with itself, has been applied.
C18_Witness ==
    \E i \in AllApplied :
        /\ applied[i].accepted_by # {}
        /\ Len(applied[i].block.forges) = 3
        /\ applied[i].block.header.merkle_root =
              Sha256Pair(Sha256Pair(Sha256(applied[i].block.forges[1]),
                                    Sha256(applied[i].block.forges[2])),
                         Sha256Pair(Sha256(applied[i].block.forges[3]),
                                    Sha256(applied[i].block.forges[3])))

\* Every check of validate_block other than the two on the number of forges.
OtherChecksPass(block, parent_hash, clock) ==
    /\ block.header.prev_block_hash = parent_hash
    /\ \A i \in 1..Len(block.forges) : validate_forge(block.forges[i]) = "Ok"
    /\ compute_merkle_root(block.forges) = block.header.merkle_root
    /\ block.header.timestamp <= clock + MAX_FUTURE_SKEW

\* C19: validate_block rejects a block without forges (EmptyBlock, once the
\* parent hash matches) and one of more than max_forges_per_block forges
\* (TooManyForges, once the parent hash matches), accepts a block of exactly
\* max_forges_per_block forges that passes the other checks, and accepts no
\* block outside 0 < len(forges) <= max_forges_per_block.
C19_BlockSizeBounds ==
    [][\A b \in Candidates, p \in ParentHashes, clock \in 0..MaxNow :
          ValidateBlockCall(b, p, clock)
          => LET n == Len(b.forges)
                 linked == b.header.prev_block_hash = p
             IN  /\ n = 0 => /\ last'.result \in {"BadBlockLink", "EmptyBlock"}
                             /\ linked => last'.result = "EmptyBlock"
                 /\ n > max_forges_per_block
                       => /\ last'.result \in {"BadBlockLink", "TooManyForges"}
                          /\ linked => last'.result = "TooManyForges"
                 /\ (n = max_forges_per_block /\ OtherChecksPass(b, p, clock))
                       => last'.result = "Ok"
                 /\ last'.result = "Ok" => 0 < n /\ n <= max_forges_per_block]_vars

\* C19 witness: validate_block has accepted a block of exactly
\* max_forges_per_block forges.
C19_Witness ==
    /\ last.op = "validate_block"
    /\ last.result = "Ok"
    /\ received # <<>>
    /\ Len(received[1].forges) = max_forges_per_block

\* The first d bytes of hash exist and are zero.
ZeroPrefix(hash, d) == d <= Len(hash) /\ \A i \in 1..d : hash[i] = 0

\* C20: check_difficulty(hash, d) is true exactly when hash has at least d
\* leading zero bytes; a forge that passes the derivation checks and whose
\* proof_hash has exactly `difficulty` leading zero bytes is not refused with
\* DifficultyNotMet, and one whose proof_hash has one fewer is.
C20_DifficultyBoundary ==
    /\ \A hash \in [1..2 -> {0, 1}], d \in 0..3 :
          (check_difficulty(hash, d) <=> ZeroPrefix(hash, d))
    /\ ((last.op = "validate_forge" /\ ValidateDerivation(last.forge[1]) = "Ok")
          => LET zeros == LeadingZeros(last.forge[1].proof_hash)
             IN  /\ zeros = difficulty => last.result # "DifficultyNotMet"
                 /\ zeros = difficulty - 1 => last.result = "DifficultyNotMet")

\* C38: remove_block_forges returns Ok also when another thread removes one
\* of the block's forges between the contains check and the remove_forge.
C38_RemoveBlockForgesOk ==
    (/\ poolLast.op = "remove_block_forges"
     /\ pendingLock # "poisoned"
     /\ queueLock # "poisoned")
    => poolLast.result = "Ok"

----------------------------------------------------------------------------
\* Properties of the mempool's locks.

HoldsGuard(t, lock) == Writer(lock) = t \/ t \in readers[lock]

\* C16: a thread that holds a guard on the priority index holds one on pending
\* (pending is taken first, on read and write paths), and the threads inside a
\* mempool call are never all waiting for a lock.
C16_LockingDiscipline ==
    /\ \A t \in Threads : HoldsGuard(t, "priority_queue") => HoldsGuard(t, "pending")
    /\ (\E t \in Threads : InCall(t)) => \E t \in Threads : InCall(t) /\ ~Waiting(t)

\* C16 witness: one thread holds both write guards while the other waits for
\* pending.
C16_Witness ==
    \E t, u \in Threads :
        /\ pendingLock = t
        /\ queueLock = t
        /\ Waiting(u)

\* C17: with remove_expired called again and again and the clock advancing,
\* every forge that is pending is eventually no longer pending.
C17_ForgeEventuallyRemoved ==
    \A h \in {f.proof_hash : f \in LiveForges} :
        (h \in DOMAIN pending) ~> (h \notin DOMAIN pending)

----------------------------------------------------------------------------
\* Properties of validate_forge and validate_block, continued.

\* C21: a validate_forge call on a forge whose prophecy is not the canonical
\* one returns InvalidProphecy, whatever the forge's other fields and whatever
\* the engine's state and locks.
C21_NonCanonicalRejected ==
    (last.op = "validate_forge" /\ last.forge[1].prophecy # CANONICAL_PROPHECY)
        => last.result = "InvalidProphecy"

\* C21 witness: a forge with a non-canonical prophecy and a wrong derived key
\* was refused while chain_state could not be read.
C21_Witness ==
    /\ last.op = "validate_forge"
    /\ last.forge[1].prophecy # CANONICAL_PROPHECY
    /\ last.forge[1].derived_key = <<1, 1>>
    /\ last.result = "InvalidProphecy"
    /\ chainLock # "free"

\* The checks validate_block makes before it reads the clock.
ChecksBeforeTimestamp(block, parent_hash) ==
    /\ block.header.prev_block_hash = parent_hash
    /\ block.forges # <<>>
    /\ Len(block.forges) <= max_forges_per_block
    /\ \A i \in 1..Len(block.forges) : validate_forge(block.forges[i]) = "Ok"
    /\ compute_merkle_root(block.forges) = block.header.merkle_root

----------------------------------------------------------------------------
\* C23: a request whose jsonrpc member is missing or is not "2.0" is answered
\* with error code -32600, through handle_request and through
\* handle_request_str alike, whatever its method.
C23_InvalidRequest ==
    /\ ((rpcLast.entry = "handle_request" /\ rpcLast.request[1].jsonrpc # "2.0")
          => (rpcLast.response[1].error # <<>>
              /\ rpcLast.response[1].error[1].code = -32600))
    /\ ((rpcLast.entry = "handle_request_str"
         /\ rpcLast.body[1].syntax = "object"
         /\ (rpcLast.body[1].jsonrpc = <<>>
             \/ rpcLast.body[1].jsonrpc[1] # JsonString("2.0")))
          => (rpcLast.response[1].error # <<>>
              /\ rpcLast.response[1].error[1].code = -32600))

\* What the last call answered, for the two entry points that answer.
Answered == rpcLast.entry \in {"handle_request", "handle_request_str"}
ErrorCode == IF rpcLast.response[1].error = <<>> THEN 0
             ELSE rpcLast.response[1].error[1].code

\* C24: a well-formed 2.0 request is answered with -32601 exactly when its
\* method has no registered handler; the eight default methods are registered
\* from construction on and are never answered with -32601.
C24_MethodNotFound ==
    /\ {"getblockcount", "getinfo", "getblock", "getforge", "submitforge",
        "getpeerinfo", "validateprophecy", "getdifficulty"} \subseteq DOMAIN handlers
    /\ ((Answered /\ rpcLast.request # <<>> /\ rpcLast.request[1].jsonrpc = "2.0")
          => ((ErrorCode = -32601) <=> (rpcLast.request[1].method \notin DOMAIN handlers)))
    /\ ((Answered /\ rpcLast.request # <<>> /\ rpcLast.request[1].jsonrpc = "2.0"
         /\ rpcLast.request[1].method \in
               {"getblockcount", "getinfo", "getblock", "getforge", "submitforge",
                "getpeerinfo", "validateprophecy", "getdifficulty"})
          => ErrorCode # -32601)

\* C24 witness: after a handler was registered for "custom", a 2.0 request for
\* a method nobody registered is answered with -32601.
C24_Witness ==
    /\ rpcLast.entry = "handle_request"
    /\ rpcLast.request[1].jsonrpc = "2.0"
    /\ rpcLast.request[1].method = "unknown"
    /\ "custom" \in DOMAIN handlers
    /\ ErrorCode = -32601
    /\ rpcLast.response[1].id = rpcLast.request[1].id

\* The params a default handler refuses: no numeric height for getblock, no
\* string for getforge and validateprophecy, nothing at all for submitforge.
WrongShape(handler, params) ==
    \/ handler = "getblock" /\ (params = <<>> \/ params[1].kind # "u64")
    \/ handler \in {"getforge", "validateprophecy"}
       /\ (params = <<>> \/ params[1].kind # "string")
    \/ handler = "submitforge" /\ params = <<>>

\* C25: a request to a registered method whose params are missing or of the
\* wrong shape is answered with error code -32602.
C25_InvalidParams ==
    (Answered /\ rpcLast.request # <<>> /\ rpcLast.request[1].jsonrpc = "2.0"
     /\ rpcLast.invoked # <<>>
     /\ WrongShape(rpcLast.invoked[1], rpcLast.request[1].params))
        => ErrorCode = -32602

\* C26: when the handler that ran returned an error, the response carries
\* code -32603 with the handler's message in data.error, has no result and
\* echoes the request id; when it succeeded, the response has the result and
\* no error.
C26_HandlerOutcome ==
    (Answered /\ rpcLast.invoked # <<>>)
        => LET request == rpcLast.request[1]
               response == rpcLast.response[1]
               outcome == RunHandler(rpcLast.invoked[1], request.params)
           IN  /\ response.id = request.id
               /\ (outcome.ok
                     => (response.result = <<outcome.value>> /\ response.error = <<>>))
               /\ (~outcome.ok
                     => (/\ response.result = <<>>
                         /\ response.error # <<>>
                         /\ response.error[1].code = -32603
                         /\ response.error[1].data = <<[error |-> outcome.message]>>))
               /\ (rpcLast.output # <<>>
                     => (/\ ("result" \in DOMAIN rpcLast.output[1]) <=> outcome.ok
                         /\ ("error" \in DOMAIN rpcLast.output[1]) <=> ~outcome.ok
                         /\ rpcLast.output[1]["id"] = request.id))

\* C26 witness: a handler registered by the caller failed; the answer is
\* -32603 with its message and the request's id.
C26_Witness ==
    /\ rpcLast.entry = "handle_request"
    /\ rpcLast.invoked = <<"custom_err">>
    /\ rpcLast.request[1].id = JsonString("a")
    /\ rpcLast.response[1].id = JsonString("a")
    /\ ErrorCode = -32603
    /\ rpcLast.response[1].error[1].data = <<[error |-> "custom failure"]>>

\* C27: handle_request_str answers a body that is not valid JSON with error
\* code -32700 and id null, and runs no handler.
C27_ParseError ==
    (rpcLast.entry = "handle_request_str" /\ rpcLast.body[1].syntax = "invalid")
        => /\ rpcLast.invoked = <<>>
           /\ rpcLast.response[1].result = <<>>
           /\ ErrorCode = -32700
           /\ rpcLast.response[1].id = JsonNull
           /\ "result" \notin DOMAIN rpcLast.output[1]
           /\ rpcLast.output[1]["error"].code = -32700
           /\ rpcLast.output[1]["id"] = JsonNull

\* C27 witness: a body that is no JSON was answered with -32700 and id null.
C27_Witness ==
    /\ rpcLast.entry = "handle_request_str"
    /\ rpcLast.body[1].syntax = "invalid"
    /\ rpcLast.invoked = <<>>
    /\ rpcLast.output[1]["error"].code = -32700
    /\ rpcLast.output[1]["id"] = JsonNull
    /\ server_state.chain_height = 1

\* C28: store completeness; in every reachable state of the chain store a
\* block is stored under every height from 0 to get_height().
C28_StoreCompleteness ==
    get_chain_height(db).ok
        => \A h \in 0..get_chain_height(db).value[1] : get_block(db, h).value # <<>>

\* C29: iter_blocks yields the stored blocks in ascending height order: the
\* heights it produces are strictly increasing.
C29_IterAscending ==
    storeLast.op = "iter_blocks"
        => \A i, j \in 1..Len(storeLast.result.value) :
              i < j => storeLast.result.value[i][1] < storeLast.result.value[j][1]

\* C30: last write wins per key; each read returns what was last put or set
\* for its key (None, or 0 for get_height, when nothing was), forge_exists
\* tells whether put_forge happened, and so a write for one key changes no
\* read of another.
C30_LastWriteWins ==
    /\ \A h \in StoreHeights : get_block(db, h) = StoreOk(written.block[h])
    /\ \A x \in StoreHashes :
          get_block_height_by_hash(db, x) = StoreOk(written.block_hash[x])
    /\ \A q \in StoreHashes :
          /\ get_forge(db, q) = StoreOk(written.forge[q])
          /\ forge_exists(db, q) = StoreOk(<<written.forge[q] # <<>>>>)
    /\ get_chain_height(db)
          = StoreOk(IF written.height = <<>> THEN <<0>> ELSE written.height)
    /\ get_best_block(db) = StoreOk(written.best_block)

\* C39: namespace isolation of metadata; a put_meta step, whatever its key,
\* leaves the results of get_height and get_best_block as they were.
C39_MetaIsolated ==
    [][storeLast'.op = "put_meta"
          => /\ get_chain_height(db') = get_chain_height(db)
             /\ get_best_block(db') = get_best_block(db)]_vars

----------------------------------------------------------------------------
\* Properties of the functions of crypto/mod.rs.

\* min(100_000_000 + 10_000_000 * floor(n / 10_000), 2_100_000_000), exactly.
FeeSchedule(n) ==
    LET exact == WideAdd(BASE_FEE, WideMul(DivInterval(n), INCREMENT))
    IN  IF WideLess(MAX_FEE, exact) THEN MAX_FEE ELSE exact

\* C31: for every u64 value of forges_completed, calculate_forge_fee returns
\* min(100_000_000 + 10_000_000 * floor(forges_completed / 10_000),
\* 2_100_000_000).
C31_FeeSchedule ==
    cryptoLast.op = "calculate_forge_fee"
        => cryptoLast.result = CryptoOk(FeeSchedule(cryptoLast.arg))

----------------------------------------------------------------------------
\* Properties of the Proof-of-Forge pipeline.

C33_ThirteenWords ==
    /\ cryptoLast.op = "prophecy_binding"
           => IF Len(cryptoLast.arg) # 13
              THEN ~cryptoLast.result.ok
              ELSE cryptoLast.result.ok /\ Len(cryptoLast.result.value) = 64
    /\ \A i \in 1..Len(runs) :
           /\ Len(runs[i].args.prophecy_words) # 13 => ~runs[i].result.ok
           /\ runs[i].result.ok => Len(runs[i].result.value.prophecy_hash) = 64
C33_Witness ==
    /\ cryptoLast.op = "prophecy_binding"
    /\ Len(cryptoLast.arg) = 13
    /\ cryptoLast.arg # CANONICAL_WORDS
    /\ cryptoLast.result.ok
    /\ \E i, j \in 1..Len(runs) :
           /\ Len(runs[i].args.prophecy_words) = 12
           /\ ~runs[i].result.ok
           /\ runs[j].result.ok

\* The reference computation of Tetra-POW: a lane is its 64 bits, lowest first.
RefLane(seed, n) ==
    SubSeq([k \in 1..64 |-> (seed[8 * n + ((k - 1) \div 8) + 1] \div 2^((k - 1) % 8)) % 2],
           1, 64)
RefXor(a, b) == SubSeq([k \in 1..64 |-> (a[k] + b[k]) % 2], 1, 64)
RefShl(a, n) == SubSeq([k \in 1..64 |-> IF k > n THEN a[k - n] ELSE 0], 1, 64)
RefShr(a, n) == SubSeq([k \in 1..64 |-> IF k + n <= 64 THEN a[k + n] ELSE 0], 1, 64)
RefByte(a, i) ==
    a[8 * i - 7] + 2 * a[8 * i - 6] + 4 * a[8 * i - 5] + 8 * a[8 * i - 4]
        + 16 * a[8 * i - 3] + 32 * a[8 * i - 2] + 64 * a[8 * i - 1] + 128 * a[8 * i]
RefBytes(a) == SubSeq([i \in 1..8 |-> RefByte(a, i)], 1, 8)
RECURSIVE RefAddBytes(_, _, _)
RefAddBytes(x, y, carry) ==
    IF x = <<>> THEN <<>>
    ELSE <<(Head(x) + Head(y) + carry) % 256>>
         \o RefAddBytes(Tail(x), Tail(y), (Head(x) + Head(y) + carry) \div 256)
\* The sum modulo 2^64 of a lane and a constant given by its bytes, lowest first.
RefAdd(a, constant) == RefLane(RefAddBytes(RefBytes(a), constant, 0), 0)
RefConstants ==
    <<<<\H15, \H7C, \H4A, \H7F, \HB9, \H79, \H37, \H9E>>,
      <<\HD3, \H08, \HA3, \H85, \H88, \H6A, \H3F, \H24>>,
      <<\H44, \H73, \H70, \H03, \H2E, \H8A, \H19, \H13>>,
      <<\HD0, \H31, \H9F, \H29, \H22, \H38, \H09, \HA4>>>>
RefS0(s) == RefXor(s[1], RefXor(RefShl(s[2], 13), RefShr(s[4], 7)))
RefS1(s, s0) == RefXor(s[2], RefXor(RefShl(s[3], 17), RefShr(s0, 5)))
RefS2(s, s1) == RefXor(s[3], RefXor(RefShl(s[4], 23), RefShr(s1, 11)))
RefS3(s, s0, s2) == RefXor(s[4], RefXor(RefShl(s0, 29), RefShr(s2, 3)))
RefFinish(s0, s1, s2, s3) ==
    <<RefAdd(s0, RefConstants[1]), RefAdd(s1, RefConstants[2]),
      RefAdd(s2, RefConstants[3]), RefAdd(s3, RefConstants[4])>>
RefWith2(s, s0, s1, s2) == RefFinish(s0, s1, s2, RefS3(s, s0, s2))
RefWith1(s, s0, s1) == RefWith2(s, s0, s1, RefS2(s, s1))
RefWith0(s, s0) == RefWith1(s, s0, RefS1(s, s0))
RefRound(s) == RefWith0(s, RefS0(s))
RECURSIVE RefRounds(_, _)
RefRounds(s, n) ==
    IF Len(s) = 4 /\ n > 0 THEN RefRounds(RefRound(s), n - 1) ELSE s
RefOutput(s) == RefBytes(s[1]) \o RefBytes(s[2]) \o RefBytes(s[3]) \o RefBytes(s[4])
RefTetraPow(seed) ==
    RefOutput(RefRounds(<<RefLane(seed, 0), RefLane(seed, 1), RefLane(seed, 2),
                          RefLane(seed, 3)>>, 128))

\* C40: for every input of at least 32 bytes tetra_pow_128_rounds returns the
\* little-endian bytes of the four lanes, loaded little-endian from the first
\* 32 bytes, after exactly 128 rounds of the four xor-shift updates (each on
\* the lanes already updated) and the four additions modulo 2^64; the output
\* is always 32 bytes.
C40_TetraReference ==
    cryptoLast.op = "tetra_pow_128_rounds" /\ cryptoLast.result.ok
        => /\ Len(cryptoLast.result.value) = 32
           /\ Len(cryptoLast.arg) >= 32
                  => cryptoLast.result.value = RefTetraPow(cryptoLast.arg)
C40_Witness ==
    /\ cryptoLast.op = "tetra_pow_128_rounds"
    /\ cryptoLast.result.ok
    /\ Len(cryptoLast.arg) > 32
    /\ \E i \in 1..32 : cryptoLast.arg[i] # 0
    /\ tetra = <<>>

====
